---- MODULE Spec2Model ----
(***************************************************************************)
(* L-Store storage engine (lstore/): one Database holding one Table, its   *)
(* page ranges, the shared BufferPool, the page files on disk and the      *)
(* background merge thread.                                                *)
(*                                                                         *)
(* Page objects are shared by reference between a PageRange and the        *)
(* bufferpool's frames.  A frame either holds the very object the          *)
(* PageRange holds (shared = TRUE) or an object of its own, built by       *)
(* Page.from_bytes when the page was loaded from its file (shared = FALSE, *)
(* contents in the frame's `page').  A page is the sequence of its         *)
(* num_records values; slot s is element s + 1.  Lists indexed from 0 in   *)
(* the source are sequences here, element i at position i + 1.             *)
(* TIMESTAMP values (int(time())) are written as 0.                        *)
(***************************************************************************)
EXTENDS Integers, Sequences, FiniteSets, TLC

\* ------------------------------------------------------------------
\* Physical column layout (table.py)
\* ------------------------------------------------------------------
INDIRECTION_COLUMN == 0
RID_COLUMN == 1
TIMESTAMP_COLUMN == 2
SCHEMA_ENCODING_COLUMN == 3
BASE_RID_COLUMN == 4
USER_COL_OFFSET == 5
NULL_RID == -1
deleted == -5

\* ------------------------------------------------------------------
\* Sizes.  The source's sizes are scaled down so that full pages, full
\* ranges, a full bufferpool and a merge are all reached.
\* ------------------------------------------------------------------
\* Table.num_columns (the key is column 0)
NUM_COLUMNS == 2
key == 0
\* page.py MAX_RECORDS (512 in the source)
MAX_RECORDS == 2
\* table.py PAGES_PER_RANGE (16 in the source)
PAGES_PER_RANGE == 2
\* Table.merge_threshold_pages (10 in the source)
MERGE_THRESHOLD == 2
\* first tail RID (2 ** 32 in the source)
TAIL_RID_BASE == 100
\* largest value a page slot holds (2 ** 63 - 1 in the source)
INT64_MAX == 1000
\* frames the pool has beyond two bundles (the pool is 32 frames in the source)
PoolSlack == 2
\* inputs and run length
MaxKey == 2
\* non-key columns are inserted with a value in 0..MaxVal; every update
\* writes a value no earlier call has used (MaxVal + its ordinal)
MaxVal == 0
MaxDeletes == 1
MaxInserts == 3
MaxUpdates == 3
\* updates of a run of MergeSpec
MaxMergeUpdates == 4
\* updates of a run of RidSpec
MaxRidUpdates == 1
MaxReopens == 1
\* calls that ended in an exception
MaxFaults == 1
\* foreground threads of a run of TriggerSpec
MaxThreads == 2
\* pages a thread holds at a time
MaxHeld == 2
\* relative versions -1 .. -MaxBack are queried
MaxBack == 3

NCOLS == USER_COL_OFFSET + NUM_COLUMNS
pool_size == 2 * NCOLS + PoolSlack
KeyVals == 1..MaxKey
Vals == 0..MaxVal
UserCols == 0..(NUM_COLUMNS - 1)
None == "None"

\* ------------------------------------------------------------------
\* Sequences and dicts
\* ------------------------------------------------------------------
Min(S) == CHOOSE x \in S : \A y \in S : x <= y
Pick(S) == CHOOSE x \in S : TRUE
Max2(a, b) == IF a >= b THEN a ELSE b
Last(s) == s[Len(s)]
RemoveAt(s, i) == [j \in 1..(Len(s) - 1) |-> IF j < i THEN s[j] ELSE s[j + 1]]
SeqHas(s, x) == \E i \in 1..Len(s) : s[i] = x
\* list.remove(x): the first occurrence
SeqRemove(s, x) == IF SeqHas(s, x) THEN RemoveAt(s, Min({i \in 1..Len(s) : s[i] = x})) ELSE s
DGet(d, k) == IF k \in DOMAIN d THEN d[k] ELSE <<>>
DPut(d, k, v) == [x \in (DOMAIN d) \cup {k} |-> IF x = k THEN v ELSE d[x]]
DDel(d, k) == [x \in (DOMAIN d) \ {k} |-> d[x]]

RECURSIVE BitOr(_, _)
BitOr(a, b) == IF a = 0 THEN b
               ELSE IF b = 0 THEN a
               ELSE (IF a % 2 = 1 \/ b % 2 = 1 THEN 1 ELSE 0) + 2 * BitOr(a \div 2, b \div 2)
RECURSIVE Pow2(_)
Pow2(n) == IF n = 0 THEN 1 ELSE 2 * Pow2(n - 1)

\* ------------------------------------------------------------------
\* Exceptions: a raised exception is carried in st.exc; every later step
\* of the handler is skipped, what was done before stays done.
\* ------------------------------------------------------------------
Raise(st, e) == IF st.exc = None THEN [st EXCEPT !.exc = e] ELSE st
Ok(st) == st.exc = None

\* ------------------------------------------------------------------
\* Page keys and page objects
\* ------------------------------------------------------------------
make_page_key(range_id, is_tail, page_id, col_index) == <<range_id, is_tail, page_id, col_index>>

Bundles(st, range_id, is_tail) ==
    IF is_tail THEN st.page_ranges[range_id + 1].tail_pages
    ELSE st.page_ranges[range_id + 1].base_pages

\* the PageRange holds a page object under this key
HasMem(st, k) ==
    /\ k[1] < Len(st.page_ranges)
    /\ k[3] < Len(Bundles(st, k[1], k[2]))

MemPage(st, k) == Bundles(st, k[1], k[2])[k[3] + 1][k[4] + 1]

SetMemPage(st, k, pg) ==
    IF k[2] THEN [st EXCEPT !.page_ranges[k[1] + 1].tail_pages[k[3] + 1][k[4] + 1] = pg]
    ELSE [st EXCEPT !.page_ranges[k[1] + 1].base_pages[k[3] + 1][k[4] + 1] = pg]

\* the contents of the object a frame refers to
FramePage(st, k) == IF st.frames[k].shared THEN MemPage(st, k) ELSE st.frames[k].page

\* Table._get_bundle goes through the bufferpool only when both are set
UsePool(st) == st.db_path # None

\* the object a bundle handle obtained from _get_bundle refers to
ObjPage(st, k) == IF UsePool(st) THEN FramePage(st, k) ELSE MemPage(st, k)

SetObjPage(st, k, pg) ==
    IF UsePool(st) /\ ~st.frames[k].shared THEN [st EXCEPT !.frames[k].page = pg]
    ELSE SetMemPage(st, k, pg)

\* Page.has_capacity
has_capacity(pg) == Len(pg) < MAX_RECORDS

\* Page.write through a handle: appends, OverflowError on a full page and
\* on a value out of the signed 64-bit range
PageWrite(st, k, v) ==
    IF ~Ok(st) THEN st
    ELSE IF ~has_capacity(ObjPage(st, k)) THEN Raise(st, "OverflowError")
    ELSE IF v < -(INT64_MAX + 1) \/ v > INT64_MAX THEN Raise(st, "OverflowError")
    ELSE SetObjPage(st, k, Append(ObjPage(st, k), v))

\* Page.update through a handle: IndexError on a slot out of bounds,
\* OverflowError on a value out of range
PageUpdate(st, k, slot, v) ==
    IF ~Ok(st) THEN st
    ELSE IF slot < 0 \/ slot >= Len(ObjPage(st, k)) THEN Raise(st, "IndexError")
    ELSE IF v < -(INT64_MAX + 1) \/ v > INT64_MAX THEN Raise(st, "OverflowError")
    ELSE SetObjPage(st, k, [ObjPage(st, k) EXCEPT ![slot + 1] = v])

\* Page.read succeeds
Readable(pg, slot) == slot >= 0 /\ slot < Len(pg)

\* ------------------------------------------------------------------
\* BufferPool (bufferpool.py) and the write callback (db.py)
\* ------------------------------------------------------------------
\* Database._write_single_page
WriteSinglePage(st, k, pg) ==
    IF st.db_path = None THEN st ELSE [st EXCEPT !.files = DPut(st.files, k, pg)]

NotePeak(st) ==
    [st EXCEPT !.peak = Max2(st.peak, Cardinality(DOMAIN st.frames))]

\* BufferPool._evict: the first key of lru_order whose frame is not pinned
EvictAt(st, i) ==
    [(IF st.frames[st.lru_order[i]].is_dirty /\ st.write_fn
      THEN WriteSinglePage(st, st.lru_order[i], FramePage(st, st.lru_order[i]))
      ELSE st)
     EXCEPT !.frames = DDel(st.frames, st.lru_order[i]),
            !.lru_order = RemoveAt(st.lru_order, i),
            !.evicted = TRUE]

\* _evict taking the unpinned frame used last
EvictNewest(st) ==
    IF ~Ok(st) THEN st
    ELSE IF \A i \in 1..Len(st.lru_order) : st.frames[st.lru_order[i]].pin_count # 0
    THEN Raise(st, "RuntimeError")
    ELSE EvictAt(st, CHOOSE i \in 1..Len(st.lru_order) :
                        /\ st.frames[st.lru_order[i]].pin_count = 0
                        /\ \A j \in (i + 1)..Len(st.lru_order) :
                               st.frames[st.lru_order[j]].pin_count # 0)

Evict(st) ==
    IF ~Ok(st) THEN st
    ELSE IF \A i \in 1..Len(st.lru_order) : st.frames[st.lru_order[i]].pin_count # 0
    THEN Raise(st, "RuntimeError")
    ELSE EvictAt(st, Min({i \in 1..Len(st.lru_order) : st.frames[st.lru_order[i]].pin_count = 0}))

\* MakeRoom evicting only once the pool holds more than pool_size frames
MakeRoomLate(st) ==
    IF ~Ok(st) THEN st
    ELSE IF Cardinality(DOMAIN st.frames) > pool_size THEN Evict(st)
    ELSE st

\* "if len(self.frames) >= self.pool_size: self._evict()"
MakeRoom(st) ==
    IF ~Ok(st) THEN st
    ELSE IF Cardinality(DOMAIN st.frames) >= pool_size THEN Evict(st)
    ELSE st

\* the new FrameMeta enters frames and the end of lru_order
AddFrame(st, k, shared, page, pin_count) ==
    IF ~Ok(st) THEN st
    ELSE NotePeak([st EXCEPT
             !.frames = DPut(st.frames, k, [shared |-> shared, page |-> page,
                                            is_dirty |-> FALSE, pin_count |-> pin_count]),
             !.lru_order = Append(SeqRemove(st.lru_order, k), k)])

\* Table._load_page_from_disk: a page read from its file is an object of
\* its own; without a file the PageRange's object is handed out
LoadShared(st, k) == ~(st.db_path # None /\ k \in DOMAIN st.files) /\ HasMem(st, k)
LoadPage(st, k) == IF st.db_path # None /\ k \in DOMAIN st.files THEN st.files[k] ELSE <<>>

\* BufferPool.get_page
GetPage(st, k) ==
    IF ~Ok(st) THEN st
    ELSE IF k \in DOMAIN st.frames
    THEN [st EXCEPT !.lru_order = Append(SeqRemove(st.lru_order, k), k),
                    !.frames[k].pin_count = st.frames[k].pin_count + 1]
    ELSE AddFrame(MakeRoom(st), k, LoadShared(st, k), LoadPage(st, k), 1)

\* BufferPool.unpin
Unpin(st, k, is_dirty) ==
    IF ~Ok(st) \/ k \notin DOMAIN st.frames THEN st
    ELSE [st EXCEPT !.frames[k].pin_count = IF @ > 0 THEN @ - 1 ELSE @,
                    !.frames[k].is_dirty = @ \/ is_dirty]

\* BufferPool.register_page: page_obj is the object the PageRange holds under k
RegisterPage(st, k) ==
    IF ~Ok(st) \/ k \in DOMAIN st.frames THEN st
    ELSE AddFrame(MakeRoom(st), k, TRUE, <<>>, 0)

\* BufferPool.flush_all
RECURSIVE FlushKeys(_, _)
FlushKeys(st, ks) ==
    IF ks = {} THEN st
    ELSE FlushKeys(IF st.frames[Pick(ks)].is_dirty
                   THEN [WriteSinglePage(st, Pick(ks), FramePage(st, Pick(ks)))
                         EXCEPT !.frames[Pick(ks)].is_dirty = FALSE]
                   ELSE st,
                   ks \ {Pick(ks)})
flush_all(st) == FlushKeys(st, DOMAIN st.frames)
\* ------------------------------------------------------------------
\* Index (index.py).  indices[c] is [active, map]; active = FALSE is None.
\* ------------------------------------------------------------------
\* Index.locate
locate(st, column, value) ==
    IF ~st.indices[column].active THEN <<>> ELSE DGet(st.indices[column].map, value)

\* Index.locate_range
RECURSIVE LocateFrom(_, _, _, _)
LocateFrom(st, value, end, column) ==
    IF value > end THEN <<>>
    ELSE DGet(st.indices[column].map, value) \o LocateFrom(st, value + 1, end, column)
locate_range(st, begin, end, column) ==
    IF ~st.indices[column].active THEN <<>> ELSE LocateFrom(st, begin, end, column)

\* Index.insert
IndexInsert(st, key_value, rid) ==
    IF ~Ok(st) \/ ~st.indices[key].active THEN st
    ELSE [st EXCEPT !.indices[key].map = DPut(@, key_value, Append(DGet(@, key_value), rid))]

\* Index.insert_secondary
insert_secondary(st, col, value, rid) ==
    IF ~Ok(st) \/ ~st.indices[col].active \/ col = key THEN st
    ELSE IF SeqHas(DGet(st.indices[col].map, value), rid)
    THEN [st EXCEPT !.indices[col].map = DPut(@, value, DGet(@, value))]
    ELSE [st EXCEPT !.indices[col].map = DPut(@, value, Append(DGet(@, value), rid))]

\* Index.delete
IndexDelete(st, key_value, rid) ==
    IF ~Ok(st) \/ ~st.indices[key].active \/ key_value \notin DOMAIN st.indices[key].map THEN st
    ELSE [st EXCEPT !.indices[key].map[key_value] = SeqRemove(@, rid)]

\* Index.delete_secondary
delete_secondary(st, col, value, rid) ==
    IF ~Ok(st) \/ ~st.indices[col].active \/ col = key
       \/ value \notin DOMAIN st.indices[col].map THEN st
    ELSE [st EXCEPT !.indices[col].map[value] = SeqRemove(@, rid)]


\* ------------------------------------------------------------------
\* Table internals (table.py).  A page directory entry e is
\* [range_id, is_tail, page_id, offset].
\* ------------------------------------------------------------------
EmptyBundle == [c \in 1..NCOLS |-> <<>>]
\* PageRange.__init__
NewPageRange == [base_pages |-> <<>>, tail_pages |-> <<>>, tps |-> <<>>, pending_merge |-> <<>>]
\* PageRange.has_capacity
RangeHasCapacity(pr) ==
    IF Len(pr.base_pages) = 0 THEN TRUE
    ELSE IF Len(pr.base_pages) >= PAGES_PER_RANGE THEN FALSE
    ELSE TRUE

Return(st, ok, recs) == IF ~Ok(st) THEN st ELSE [st EXCEPT !.ret = [ok |-> ok, recs |-> recs]]
Record(rid, k, columns) == [rid |-> rid, key |-> k, columns |-> columns]
EntryKey(e, col_index) == make_page_key(e.range_id, e.is_tail, e.page_id, col_index)

\* Table._apply_pending_merge.  A frame of a base page of the range is made
\* to refer to the merged page; a frame whose page the merged copy does not
\* have keeps the object it referred to, which the range no longer holds.
ApplyFrames(st, range_id, n_merged) ==
    [k \in DOMAIN st.frames |->
        IF k[1] = range_id /\ ~k[2]
        THEN IF k[3] < n_merged
             THEN [st.frames[k] EXCEPT !.shared = TRUE, !.page = <<>>]
             ELSE IF st.frames[k].shared
             THEN [st.frames[k] EXCEPT !.shared = FALSE, !.page = MemPage(st, k)]
             ELSE st.frames[k]
        ELSE st.frames[k]]

\* MergedTps with the tps list extended whether or not it is shorter than
\* the base page list
MergedTpsExtended(tps, merged_base, merged_tps) ==
    [i \in 1..(Len(tps) + Len(merged_base)) |->
        IF i <= Len(merged_tps)
        THEN Max2(IF i <= Len(tps) THEN tps[i] ELSE NULL_RID, merged_tps[i])
        ELSE IF i <= Len(tps) THEN tps[i] ELSE NULL_RID]

\* "page_range.tps.extend(...)" and the max with merged_tps
MergedTps(tps, merged_base, merged_tps) ==
    [i \in 1..Max2(Len(tps), Len(merged_base)) |->
        IF i <= Len(merged_tps)
        THEN Max2(IF i <= Len(tps) THEN tps[i] ELSE NULL_RID, merged_tps[i])
        ELSE IF i <= Len(tps) THEN tps[i] ELSE NULL_RID]

\* the locked block of Table._apply_pending_merge: installs the pair
\* "merged_base, merged_tps = pending" the caller read before it took the lock
InstallPending(st, range_id, pending) ==
    [st EXCEPT
        !.frames = ApplyFrames(st, range_id, Len(pending[1])),
        !.page_ranges[range_id + 1].base_pages = pending[1],
        !.page_ranges[range_id + 1].tps = MergedTps(@, pending[1], pending[2]),
        !.page_ranges[range_id + 1].pending_merge = <<>>]

ApplyPendingMerge(st, range_id) ==
    IF ~Ok(st) \/ range_id < 0 \/ range_id >= Len(st.page_ranges) THEN st
    ELSE IF st.page_ranges[range_id + 1].pending_merge = <<>> THEN st
    ELSE InstallPending(st, range_id, st.page_ranges[range_id + 1].pending_merge)

\* Table._get_bundle: pins the bundle's pages, column by column
RECURSIVE GetCols(_, _, _, _, _)
GetCols(st, range_id, is_tail, page_id, col_index) ==
    IF col_index >= NCOLS \/ ~Ok(st) THEN st
    ELSE GetCols(GetPage(st, make_page_key(range_id, is_tail, page_id, col_index)),
                 range_id, is_tail, page_id, col_index + 1)

\* Table._get_bundle once a pending merge has been applied; without the
\* pool _get_bundle_direct indexes the lists
FetchBundle(st, range_id, is_tail, page_id) ==
    IF ~Ok(st) THEN st
    ELSE IF ~UsePool(st)
    THEN IF range_id < Len(st.page_ranges) /\ page_id < Len(Bundles(st, range_id, is_tail))
         THEN st ELSE Raise(st, "IndexError")
    ELSE GetCols(st, range_id, is_tail, page_id, 0)

GetBundle(st, range_id, is_tail, page_id) ==
    FetchBundle(IF is_tail THEN st ELSE ApplyPendingMerge(st, range_id),
                range_id, is_tail, page_id)
GetEntry(st, e) == GetBundle(st, e.range_id, e.is_tail, e.page_id)

\* Table._unpin_bundle
RECURSIVE UnpinCols(_, _, _, _, _, _)
UnpinCols(st, range_id, is_tail, page_id, dirty, col_index) ==
    IF col_index >= NCOLS \/ ~Ok(st) THEN st
    ELSE UnpinCols(Unpin(st, make_page_key(range_id, is_tail, page_id, col_index), dirty),
                   range_id, is_tail, page_id, dirty, col_index + 1)
UnpinBundle(st, range_id, is_tail, page_id, dirty) ==
    UnpinCols(st, range_id, is_tail, page_id, dirty, 0)
UnpinEntry(st, e, dirty) == UnpinBundle(st, e.range_id, e.is_tail, e.page_id, dirty)

\* Table._register_bundle
RECURSIVE RegisterCols(_, _, _, _, _)
RegisterCols(st, range_id, is_tail, page_id, col_index) ==
    IF col_index >= NCOLS \/ ~Ok(st) THEN st
    ELSE RegisterCols(RegisterPage(st, make_page_key(range_id, is_tail, page_id, col_index)),
                      range_id, is_tail, page_id, col_index + 1)
RegisterBundle(st, range_id, is_tail, page_id) ==
    IF ~UsePool(st) THEN st ELSE RegisterCols(st, range_id, is_tail, page_id, 0)

\* "bundle[col + USER_COL_OFFSET].read(offset) for col in range(num_columns)"
\* on a fetched bundle: whether every read succeeds, and the values
UserReadable(st, e) ==
    \A c \in UserCols : Readable(ObjPage(st, EntryKey(e, c + USER_COL_OFFSET)), e.offset)
UserValues(st, e) ==
    [c \in UserCols |-> ObjPage(st, EntryKey(e, c + USER_COL_OFFSET))[e.offset + 1]]
\* "bundle[INDIRECTION_COLUMN].read(offset)"
IndReadable(st, e) == Readable(ObjPage(st, EntryKey(e, INDIRECTION_COLUMN)), e.offset)
IndValue(st, e) == ObjPage(st, EntryKey(e, INDIRECTION_COLUMN))[e.offset + 1]

\* writes of the user columns of one record, in column order
RECURSIVE WriteUser(_, _, _, _, _, _)
WriteUser(st, range_id, is_tail, page_id, values, col) ==
    IF col >= NUM_COLUMNS \/ ~Ok(st) THEN st
    ELSE WriteUser(PageWrite(st, make_page_key(range_id, is_tail, page_id, col + USER_COL_OFFSET),
                             values[col]),
                   range_id, is_tail, page_id, values, col + 1)

RECURSIVE InsertSecondaries(_, _, _, _)
InsertSecondaries(st, columns, rid, col) ==
    IF col >= NUM_COLUMNS \/ ~Ok(st) THEN st
    ELSE InsertSecondaries(IF col # key THEN insert_secondary(st, col, columns[col], rid) ELSE st,
                           columns, rid, col + 1)

\* ------------------------------------------------------------------
\* Table.insert
\* ------------------------------------------------------------------
\* "if len(self.page_ranges) == 0 or not self.page_ranges[-1].has_capacity()"
InsertNewRange(st) ==
    IF Len(st.page_ranges) = 0 \/ ~RangeHasCapacity(Last(st.page_ranges))
    THEN [st EXCEPT !.page_ranges = Append(@, NewPageRange)]
    ELSE st

\* a new base bundle when there is none or the last one's RID page is full
InsertNewBundle(st, range_id) ==
    IF Len(st.page_ranges[range_id + 1].base_pages) = 0
       \/ ~has_capacity(Last(st.page_ranges[range_id + 1].base_pages)[RID_COLUMN + 1])
    THEN RegisterBundle(
           [st EXCEPT !.page_ranges[range_id + 1].base_pages = Append(@, EmptyBundle),
                      !.page_ranges[range_id + 1].tps =
                          IF Len(@) < Len(st.page_ranges[range_id + 1].base_pages) + 1
                          THEN Append(@, NULL_RID) ELSE @],
           range_id, FALSE, Len(st.page_ranges[range_id + 1].base_pages))
    ELSE st

\* the writes of the record into the fetched bundle, then the unpin
InsertWrite(st, range_id, page_id, rid, columns) ==
    UnpinBundle(
      WriteUser(
        PageWrite(PageWrite(PageWrite(PageWrite(PageWrite(st,
            make_page_key(range_id, FALSE, page_id, INDIRECTION_COLUMN), NULL_RID),
            make_page_key(range_id, FALSE, page_id, RID_COLUMN), rid),
            make_page_key(range_id, FALSE, page_id, TIMESTAMP_COLUMN), 0),
            make_page_key(range_id, FALSE, page_id, SCHEMA_ENCODING_COLUMN), 0),
            make_page_key(range_id, FALSE, page_id, BASE_RID_COLUMN), rid),
        range_id, FALSE, page_id, columns, 0),
      range_id, FALSE, page_id, TRUE)

\* page directory and indexes; offset is what the RID page's write returned
InsertRegister(st, range_id, page_id, rid, columns) ==
    IF ~Ok(st) THEN st
    ELSE Return(
           InsertSecondaries(
             IndexInsert(
               [st EXCEPT !.page_directory =
                   DPut(@, rid,
                        [range_id |-> range_id, is_tail |-> FALSE, page_id |-> page_id,
                         offset |-> Len(ObjPage(st, make_page_key(range_id, FALSE, page_id,
                                                                  RID_COLUMN))) - 1])],
               columns[key], rid),
             columns, rid, 0),
           TRUE, <<>>)

\* from "page_id = len(current_range.base_pages) - 1"
InsertInto(st, range_id, page_id, rid, columns) ==
    InsertRegister(InsertWrite(GetBundle(st, range_id, FALSE, page_id),
                               range_id, page_id, rid, columns),
                   range_id, page_id, rid, columns)

InsertPlace(st, rid, columns) ==
    InsertInto(st, Len(st.page_ranges) - 1,
               Len(Last(st.page_ranges).base_pages) - 1, rid, columns)

InsertRange(st, rid, columns) ==
    InsertPlace(InsertNewBundle(st, Len(st.page_ranges) - 1), rid, columns)

\* Table.insert without the look-up of the key in the primary index
TableInsertUnchecked(st, columns) ==
    InsertRange(InsertNewRange([st EXCEPT !.next_rid = @ + 1]), st.next_rid, columns)

TableInsert(st, columns) ==
    IF locate(st, key, columns[key]) # <<>> THEN Return(st, FALSE, <<>>)
    ELSE InsertRange(InsertNewRange([st EXCEPT !.next_rid = @ + 1]), st.next_rid, columns)

\* ------------------------------------------------------------------
\* Table.read and Table._read_without_indirection
\* ------------------------------------------------------------------
RECURSIVE ReadFrom(_, _)
\* after the unpin: deleted, follow the indirection, or answer
ReadDecide(st, current_rid, e, indirection, columns) ==
    IF indirection = deleted THEN Return(st, FALSE, <<>>)
    ELSE IF ~e.is_tail /\ indirection # NULL_RID THEN ReadFrom(st, indirection)
    ELSE Return(st, TRUE, <<Record(current_rid, columns[key], columns)>>)

\* the reads from the fetched bundle
ReadFetched(st, current_rid, e) ==
    IF ~Ok(st) THEN st
    ELSE IF ~IndReadable(st, e) \/ ~UserReadable(st, e) THEN Raise(st, "IndexError")
    ELSE ReadDecide(UnpinEntry(st, e, FALSE), current_rid, e, IndValue(st, e), UserValues(st, e))

\* one turn of the while loop
ReadFrom(st, current_rid) ==
    IF ~Ok(st) THEN st
    ELSE IF current_rid \notin DOMAIN st.page_directory THEN Return(st, FALSE, <<>>)
    ELSE ReadFetched(GetEntry(st, st.page_directory[current_rid]), current_rid,
                     st.page_directory[current_rid])
TableRead(st, rid) == ReadFrom(st, rid)

RawFetched(st, rid, e) ==
    IF ~Ok(st) THEN st
    ELSE IF ~UserReadable(st, e) THEN Raise(st, "IndexError")
    ELSE Return(UnpinEntry(st, e, FALSE), TRUE,
                <<Record(rid, UserValues(st, e)[key], UserValues(st, e))>>)

ReadWithoutIndirection(st, rid) ==
    IF ~Ok(st) THEN st
    ELSE IF rid \notin DOMAIN st.page_directory THEN Return(st, FALSE, <<>>)
    ELSE RawFetched(GetEntry(st, st.page_directory[rid]), rid, st.page_directory[rid])

\* ------------------------------------------------------------------
\* Table.update.  An entry of the column vector is <<>> (None) or <<v>>.
\* ------------------------------------------------------------------
RECURSIVE UpdateMask(_, _)
UpdateMask(columns, i) ==
    IF i >= NUM_COLUMNS THEN 0
    ELSE (IF columns[i + 1] # <<>> THEN Pow2(i) ELSE 0) + UpdateMask(columns, i + 1)

\* "new_values = current_values.copy()" with the non-null entries replaced
NewValues(current_values, columns) ==
    [c \in UserCols |-> IF columns[c + 1] # <<>> THEN columns[c + 1][1] ELSE current_values[c]]

\* secondary-index maintenance at the end of Table.update
RECURSIVE UpdateSecondaries(_, _, _, _, _)
UpdateSecondaries(st, current_values, new_values, base_rid, col) ==
    IF col >= NUM_COLUMNS \/ ~Ok(st) THEN st
    ELSE UpdateSecondaries(
           IF col = key \/ ~st.indices[col].active \/ current_values[col] = new_values[col]
           THEN st
           ELSE insert_secondary(delete_secondary(st, col, current_values[col], base_rid),
                                 col, new_values[col], base_rid),
           current_values, new_values, base_rid, col + 1)

\* the merge trigger at the end of Table.update: the thread is started here
SpawnMerge(st) ==
    IF ~Ok(st) THEN st
    ELSE IF st.update_count + 1 >= MERGE_THRESHOLD /\ ~st.merge_in_progress
    THEN [st EXCEPT !.update_count = 0, !.merge_in_progress = TRUE,
                    !.merge = [pc |-> "snapshot", range_id |-> 0, snap |-> <<>>]]
    ELSE [st EXCEPT !.update_count = @ + 1]

\* a new tail bundle when there is none or the last one's RID page is full
NewTailBundle(st, range_id) ==
    IF Len(st.page_ranges[range_id + 1].tail_pages) = 0
       \/ ~has_capacity(Last(st.page_ranges[range_id + 1].tail_pages)[RID_COLUMN + 1])
    THEN RegisterBundle(
           [st EXCEPT !.page_ranges[range_id + 1].tail_pages = Append(@, EmptyBundle)],
           range_id, TRUE, Len(st.page_ranges[range_id + 1].tail_pages))
    ELSE st

\* the writes of the tail record into the fetched tail bundle, then the unpin
TailWrite(st, range_id, tail_page_id, new_tail_rid, prev_tail_rid, update_mask, base_rid, new_values) ==
    UnpinBundle(
      WriteUser(
        PageWrite(PageWrite(PageWrite(PageWrite(PageWrite(st,
            make_page_key(range_id, TRUE, tail_page_id, RID_COLUMN), new_tail_rid),
            make_page_key(range_id, TRUE, tail_page_id, INDIRECTION_COLUMN), prev_tail_rid),
            make_page_key(range_id, TRUE, tail_page_id, TIMESTAMP_COLUMN), 0),
            make_page_key(range_id, TRUE, tail_page_id, SCHEMA_ENCODING_COLUMN), update_mask),
            make_page_key(range_id, TRUE, tail_page_id, BASE_RID_COLUMN), base_rid),
        range_id, TRUE, tail_page_id, new_values, 0),
      range_id, TRUE, tail_page_id, TRUE)

\* the schema bits of the base record, the unpin of the base bundle, the
\* secondary indexes and the merge trigger
UpdateSchema(st, base_rid, e, update_mask, current_values, new_values) ==
    IF ~Ok(st) THEN st
    ELSE IF ~Readable(ObjPage(st, EntryKey(e, SCHEMA_ENCODING_COLUMN)), e.offset)
    THEN Raise(st, "IndexError")
    ELSE Return(
           SpawnMerge(
             UpdateSecondaries(
               UnpinEntry(
                 PageUpdate(st, EntryKey(e, SCHEMA_ENCODING_COLUMN), e.offset,
                            BitOr(ObjPage(st, EntryKey(e, SCHEMA_ENCODING_COLUMN))[e.offset + 1],
                                  update_mask)),
                 e, TRUE),
               current_values, new_values, base_rid, 0)),
           TRUE, <<>>)

\* the tail's page directory entry and the base record's new indirection
UpdateLink(st, base_rid, e, new_tail_rid, tail_page_id, update_mask, current_values, new_values) ==
    IF ~Ok(st) THEN st
    ELSE UpdateSchema(
           PageUpdate(
             [st EXCEPT !.page_directory =
                 DPut(@, new_tail_rid,
                      [range_id |-> e.range_id, is_tail |-> TRUE, page_id |-> tail_page_id,
                       offset |-> Len(ObjPage(st, make_page_key(e.range_id, TRUE, tail_page_id,
                                                                RID_COLUMN))) - 1])],
             EntryKey(e, INDIRECTION_COLUMN), e.offset, new_tail_rid),
           base_rid, e, update_mask, current_values, new_values)

\* from "tail_page_id = len(tails) - 1"
UpdateTail(st, base_rid, e, prev_tail_rid, current_values, columns, new_tail_rid, tail_page_id) ==
    UpdateLink(
      TailWrite(GetBundle(st, e.range_id, TRUE, tail_page_id), e.range_id, tail_page_id,
                new_tail_rid, prev_tail_rid, UpdateMask(columns, 0), base_rid,
                NewValues(current_values, columns)),
      base_rid, e, new_tail_rid, tail_page_id, UpdateMask(columns, 0), current_values,
      NewValues(current_values, columns))

UpdatePlace(st, base_rid, e, prev_tail_rid, current_values, columns, new_tail_rid) ==
    UpdateTail(st, base_rid, e, prev_tail_rid, current_values, columns, new_tail_rid,
               Len(st.page_ranges[e.range_id + 1].tail_pages) - 1)

\* from the bitmask on, with current_values read
UpdateWrite(st, base_rid, e, prev_tail_rid, current_values, columns) ==
    IF UpdateMask(columns, 0) = 0 THEN Return(UnpinEntry(st, e, FALSE), FALSE, <<>>)
    ELSE UpdatePlace(NewTailBundle([st EXCEPT !.next_tail_rid = @ + 1], e.range_id),
                     base_rid, e, prev_tail_rid, current_values, columns, st.next_tail_rid)

\* current_values from the fetched bundle of the previous tail record
UpdatePrev(st, base_rid, e, prev_tail_rid, t, columns) ==
    IF ~Ok(st) THEN st
    ELSE IF ~UserReadable(st, t) THEN Raise(st, "IndexError")
    ELSE UpdateWrite(UnpinEntry(st, t, FALSE), base_rid, e, prev_tail_rid, UserValues(st, t),
                     columns)

\* with the base bundle fetched
UpdateBase(st, base_rid, e, columns) ==
    IF ~Ok(st) THEN st
    ELSE IF ~IndReadable(st, e) THEN Raise(st, "IndexError")
    ELSE IF IndValue(st, e) = NULL_RID
    THEN IF ~UserReadable(st, e) THEN Raise(st, "IndexError")
         ELSE UpdateWrite(st, base_rid, e, NULL_RID, UserValues(st, e), columns)
    ELSE IF IndValue(st, e) \notin DOMAIN st.page_directory
    THEN Return(UnpinEntry(st, e, FALSE), FALSE, <<>>)
    ELSE UpdatePrev(GetEntry(st, st.page_directory[IndValue(st, e)]), base_rid, e,
                    IndValue(st, e), st.page_directory[IndValue(st, e)], columns)

TableUpdate(st, rid, columns) ==
    IF Len(columns) # NUM_COLUMNS THEN Return(st, FALSE, <<>>)
    ELSE IF columns[key + 1] # <<>> THEN Return(st, FALSE, <<>>)
    ELSE IF rid \notin DOMAIN st.page_directory THEN Return(st, FALSE, <<>>)
    ELSE IF st.page_directory[rid].is_tail THEN Return(st, FALSE, <<>>)
    ELSE UpdateBase(GetEntry(st, st.page_directory[rid]), rid, st.page_directory[rid], columns)

\* ------------------------------------------------------------------
\* Table.delete
\* ------------------------------------------------------------------
RECURSIVE DeleteSecondaries(_, _, _, _)
DeleteSecondaries(st, current_values, rid, col) ==
    IF col >= NUM_COLUMNS \/ ~Ok(st) THEN st
    ELSE DeleteSecondaries(
           IF col # key /\ st.indices[col].active
           THEN delete_secondary(st, col, current_values[col], rid) ELSE st,
           current_values, rid, col + 1)

\* the sentinel, the unpin and the index removals
DeleteWrite(st, rid, e, key_value, current_values) ==
    Return(
      DeleteSecondaries(
        IndexDelete(
          UnpinEntry(PageUpdate(st, EntryKey(e, INDIRECTION_COLUMN), e.offset, deleted), e, TRUE),
          key_value, rid),
        current_values, rid, 0),
      TRUE, <<>>)

\* current_values from the fetched bundle of the latest tail record
DeleteLatest(st, rid, e, key_value, t) ==
    IF ~Ok(st) THEN st
    ELSE IF ~UserReadable(st, t) THEN Raise(st, "IndexError")
    ELSE DeleteWrite(UnpinEntry(st, t, FALSE), rid, e, key_value, UserValues(st, t))

\* with the record's bundle fetched
DeleteBase(st, rid, e) ==
    IF ~Ok(st) THEN st
    ELSE IF ~Readable(ObjPage(st, EntryKey(e, key + USER_COL_OFFSET)), e.offset)
            \/ ~IndReadable(st, e)
    THEN Raise(st, "IndexError")
    ELSE IF ~e.is_tail /\ IndValue(st, e) # NULL_RID /\ IndValue(st, e) # deleted
            /\ IndValue(st, e) \in DOMAIN st.page_directory
    THEN DeleteLatest(GetEntry(st, st.page_directory[IndValue(st, e)]), rid, e,
                      ObjPage(st, EntryKey(e, key + USER_COL_OFFSET))[e.offset + 1],
                      st.page_directory[IndValue(st, e)])
    ELSE IF ~UserReadable(st, e) THEN Raise(st, "IndexError")
    ELSE DeleteWrite(st, rid, e, ObjPage(st, EntryKey(e, key + USER_COL_OFFSET))[e.offset + 1],
                     UserValues(st, e))

TableDelete(st, rid) ==
    IF rid \notin DOMAIN st.page_directory THEN Return(st, FALSE, <<>>)
    ELSE DeleteBase(GetEntry(st, st.page_directory[rid]), rid, st.page_directory[rid])

\* ------------------------------------------------------------------
\* Query facade (query.py).  Every method catches all exceptions and
\* returns False; what the failed call had done stays done.
\* ------------------------------------------------------------------
Catch(st) == IF Ok(st) THEN st ELSE [st EXCEPT !.exc = None, !.ret = [ok |-> FALSE, recs |-> <<>>]]

\* the base RIDs of the page directory, in dict (insertion) order
RECURSIVE Ascending(_)
Ascending(S) == IF S = {} THEN <<>> ELSE <<Min(S)>> \o Ascending(S \ {Min(S)})
BaseRids(st) == Ascending({r \in DOMAIN st.page_directory : ~st.page_directory[r].is_tail})

\* Query._full_scan and Query._full_scan_base_rids; the list is returned
RECURSIVE FullScan(_, _, _, _, _)
FullScanTake(st, todo, search_key, search_key_index, rids) ==
    IF ~Ok(st) THEN st
    ELSE FullScan(st, Tail(todo), search_key, search_key_index,
                  IF st.ret.ok /\ st.ret.recs[1].columns[search_key_index] = search_key
                  THEN Append(rids, Head(todo)) ELSE rids)
FullScan(st, todo, search_key, search_key_index, rids) ==
    IF ~Ok(st) THEN st
    ELSE IF todo = <<>> THEN Return(st, TRUE, rids)
    ELSE FullScanTake(TableRead(st, Head(todo)), todo, search_key, search_key_index, rids)

Project(columns, projected_columns_index) ==
    [i \in UserCols |-> IF projected_columns_index[i + 1] = 1 THEN <<columns[i]>> ELSE <<>>]

\* the loop of Query.select over the RIDs
RECURSIVE SelectLoop(_, _, _, _)
SelectTake(st, rids, projected_columns_index, results) ==
    IF ~Ok(st) THEN st
    ELSE SelectLoop(st, Tail(rids), projected_columns_index,
                    IF st.ret.ok
                    THEN Append(results,
                                Record(Head(rids), st.ret.recs[1].columns[key],
                                       Project(st.ret.recs[1].columns, projected_columns_index)))
                    ELSE results)
SelectLoop(st, rids, projected_columns_index, results) ==
    IF ~Ok(st) THEN st
    ELSE IF rids = <<>> THEN Return(st, TRUE, results)
    ELSE SelectTake(TableRead(st, Head(rids)), rids, projected_columns_index, results)

\* the loop over the list a full scan returned
SelectScanned(st, projected_columns_index) ==
    IF ~Ok(st) THEN st ELSE SelectLoop(st, st.ret.recs, projected_columns_index, <<>>)

\* Query.select, before the except clause
SelectBody(st, search_key, search_key_index, projected_columns_index) ==
    IF locate(st, search_key_index, search_key) = <<>> /\ ~st.indices[search_key_index].active
    THEN SelectScanned(FullScan(st, BaseRids(st), search_key, search_key_index, <<>>),
                       projected_columns_index)
    ELSE SelectLoop(st, locate(st, search_key_index, search_key), projected_columns_index, <<>>)

\* Query.select
select(st, search_key, search_key_index, projected_columns_index) ==
    Catch(SelectBody(st, search_key, search_key_index, projected_columns_index))

\* the backward walk of Query.select_version along the tail chain, ending
\* in _read_without_indirection of the RID it stops at
RECURSIVE StepBack(_, _, _, _)
StepBackFetched(st, base_rid, t, steps) ==
    IF ~Ok(st) THEN st
    ELSE IF ~IndReadable(st, t) THEN Raise(st, "IndexError")
    ELSE IF IndValue(st, t) = NULL_RID
    THEN ReadWithoutIndirection(UnpinEntry(st, t, FALSE), base_rid)
    ELSE StepBack(UnpinEntry(st, t, FALSE), base_rid, IndValue(st, t), steps - 1)
StepBack(st, base_rid, current_rid, steps) ==
    IF ~Ok(st) THEN st
    ELSE IF steps = 0 \/ current_rid = deleted THEN ReadWithoutIndirection(st, current_rid)
    ELSE IF current_rid = NULL_RID \/ current_rid \notin DOMAIN st.page_directory
    THEN ReadWithoutIndirection(st, base_rid)
    ELSE IF ~st.page_directory[current_rid].is_tail THEN ReadWithoutIndirection(st, current_rid)
    ELSE StepBackFetched(GetBundle(st, st.page_directory[current_rid].range_id, TRUE,
                                   st.page_directory[current_rid].page_id),
                         base_rid,
                         [st.page_directory[current_rid] EXCEPT !.is_tail = TRUE], steps)

\* the loop of Query.select_version over the base RIDs
RECURSIVE VersionLoop(_, _, _, _, _)
VersionTake(st, rids, projected_columns_index, steps, results) ==
    IF ~Ok(st) THEN st
    ELSE VersionLoop(st, Tail(rids), projected_columns_index, steps,
                     IF st.ret.ok
                     THEN Append(results,
                                 Record(st.ret.recs[1].rid, st.ret.recs[1].key,
                                        Project(st.ret.recs[1].columns, projected_columns_index)))
                     ELSE results)
\* with the base bundle fetched
VersionBase(st, rids, e, projected_columns_index, steps, results) ==
    IF ~Ok(st) THEN st
    ELSE IF ~IndReadable(st, e) THEN Raise(st, "IndexError")
    ELSE VersionTake(StepBack(UnpinEntry(st, e, FALSE), Head(rids),
                              IF IndValue(st, e) = NULL_RID THEN Head(rids) ELSE IndValue(st, e),
                              steps),
                     rids, projected_columns_index, steps, results)
VersionLoop(st, rids, projected_columns_index, steps, results) ==
    IF ~Ok(st) THEN st
    ELSE IF rids = <<>> THEN Return(st, results # <<>>, results)
    ELSE IF Head(rids) \notin DOMAIN st.page_directory \/ st.page_directory[Head(rids)].is_tail
    THEN VersionLoop(st, Tail(rids), projected_columns_index, steps, results)
    ELSE VersionBase(GetBundle(st, st.page_directory[Head(rids)].range_id, FALSE,
                               st.page_directory[Head(rids)].page_id),
                     rids, [st.page_directory[Head(rids)] EXCEPT !.is_tail = FALSE],
                     projected_columns_index, steps, results)

\* "if not rids: return False", then the loop
VersionLocated(st, projected_columns_index, steps) ==
    IF ~Ok(st) THEN st
    ELSE IF st.ret.recs = <<>> THEN Return(st, FALSE, <<>>)
    ELSE VersionLoop(st, st.ret.recs, projected_columns_index, steps, <<>>)

\* Query.select_version, before the except clause
SelectVersionBody(st, search_key, search_key_index, projected_columns_index, relative_version) ==
    IF relative_version = 0
    THEN select(st, search_key, search_key_index, projected_columns_index)
    ELSE VersionLocated(
           IF locate(st, search_key_index, search_key) = <<>>
              /\ ~st.indices[search_key_index].active
           THEN FullScan(st, BaseRids(st), search_key, search_key_index, <<>>)
           ELSE Return(st, TRUE, locate(st, search_key_index, search_key)),
           projected_columns_index,
           IF relative_version < 0 THEN -relative_version ELSE relative_version)

\* Query.select_version
select_version(st, search_key, search_key_index, projected_columns_index, relative_version) ==
    Catch(SelectVersionBody(st, search_key, search_key_index, projected_columns_index,
                            relative_version))

\* Index.create_index
RECURSIVE CreateIndexLoop(_, _, _)
CreateIndexTake(st, todo, column_number) ==
    IF ~Ok(st) THEN st
    ELSE CreateIndexLoop(
           IF st.ret.ok
           THEN [st EXCEPT !.indices[column_number].map =
                    DPut(@, st.ret.recs[1].columns[column_number],
                         IF SeqHas(DGet(@, st.ret.recs[1].columns[column_number]), Head(todo))
                         THEN DGet(@, st.ret.recs[1].columns[column_number])
                         ELSE Append(DGet(@, st.ret.recs[1].columns[column_number]), Head(todo)))]
           ELSE st,
           Tail(todo), column_number)
CreateIndexLoop(st, todo, column_number) ==
    IF ~Ok(st) \/ todo = <<>> THEN st
    ELSE CreateIndexTake(TableRead(st, Head(todo)), todo, column_number)
create_index(st, column_number) ==
    IF st.indices[column_number].active THEN st
    ELSE CreateIndexLoop([st EXCEPT !.indices[column_number] = [active |-> TRUE, map |-> <<>>]],
                         BaseRids(st), column_number)

\* Query.sum: the loop over the RIDs; the total is returned in a list
RECURSIVE SumLoop(_, _, _, _)
\* "total += bundle[col].read(offset)" and the unpin, on a fetched bundle
SumRead(st, rids, e, col, total) ==
    IF ~Ok(st) THEN st
    ELSE IF ~Readable(ObjPage(st, EntryKey(e, col)), e.offset) THEN Raise(st, "IndexError")
    ELSE SumLoop(UnpinEntry(st, e, FALSE), Tail(rids), col,
                 total + ObjPage(st, EntryKey(e, col))[e.offset + 1])
\* with the bundle of the RID fetched
SumFetched(st, rids, e, col, total) ==
    IF ~Ok(st) THEN st
    ELSE IF e.is_tail THEN SumRead(st, rids, e, col, total)
    ELSE IF ~IndReadable(st, e) THEN Raise(st, "IndexError")
    ELSE IF IndValue(st, e) # NULL_RID /\ IndValue(st, e) # deleted
            /\ IndValue(st, e) \in DOMAIN st.page_directory
    THEN SumRead(GetBundle(UnpinEntry(st, e, FALSE), st.page_directory[IndValue(st, e)].range_id,
                           TRUE, st.page_directory[IndValue(st, e)].page_id),
                 rids, [st.page_directory[IndValue(st, e)] EXCEPT !.is_tail = TRUE], col, total)
    ELSE IF IndValue(st, e) = deleted THEN SumLoop(UnpinEntry(st, e, FALSE), Tail(rids), col, total)
    ELSE SumRead(st, rids, e, col, total)
SumLoop(st, rids, col, total) ==
    IF ~Ok(st) THEN st
    ELSE IF rids = <<>> THEN Return(st, TRUE, <<total>>)
    ELSE IF Head(rids) \notin DOMAIN st.page_directory THEN SumLoop(st, Tail(rids), col, total)
    ELSE SumFetched(GetEntry(st, st.page_directory[Head(rids)]), rids,
                    st.page_directory[Head(rids)], col, total)
\* Query.sum, before the except clause
SumBody(st, start_range, end_range, aggregate_column_index) ==
    IF locate_range(st, start_range, end_range, key) = <<>> THEN Return(st, FALSE, <<>>)
    ELSE SumLoop(st, locate_range(st, start_range, end_range, key),
                 aggregate_column_index + USER_COL_OFFSET, 0)
\* Query.sum
sum(st, start_range, end_range, aggregate_column_index) ==
    Catch(SumBody(st, start_range, end_range, aggregate_column_index))
\* ------------------------------------------------------------------
\* Background merge thread (Table.__merge).  st.merge is the thread:
\* pc "idle" (no thread), "snapshot" (at the head of the loop over the
\* ranges), "reconcile" (snapshot taken, scan and publish to come),
\* "dead" (ended by an exception, merge_in_progress left set).
\* ------------------------------------------------------------------
IdleMerge == [pc |-> "idle", range_id |-> 0, snap |-> <<>>]

\* one turn of the range loop: the first locked block
MergeSnapshotStep(st) ==
    LET range_id == st.merge.range_id IN
    IF range_id >= Len(st.page_ranges)
    THEN [st EXCEPT !.merge_in_progress = FALSE, !.merge = IdleMerge]
    ELSE LET page_range == st.page_ranges[range_id + 1] IN
         IF page_range.tail_pages = <<>>
         THEN [st EXCEPT !.merge.range_id = range_id + 1]
         ELSE [st EXCEPT !.merge =
                 [pc |-> "reconcile", range_id |-> range_id,
                  snap |-> [snapshot_tail_count |-> Len(page_range.tail_pages),
                            tail_snapshot_sizes |->
                                [i \in 1..Len(page_range.tail_pages) |->
                                    Len(page_range.tail_pages[i][RID_COLUMN + 1])],
                            merged_base |-> page_range.base_pages,
                            merged_tps |->
                                [i \in 1..Len(page_range.base_pages) |->
                                    IF i <= Len(page_range.tps) THEN page_range.tps[i]
                                    ELSE NULL_RID]]]]

\* slots bundle_idx (from 1) x slot in the order the loops visit them
RECURSIVE SlotsDown(_, _)
SlotsDown(b, n) == IF n = 0 THEN <<>> ELSE <<<<b, n - 1>>>> \o SlotsDown(b, n - 1)
RECURSIVE SlotsUp(_, _, _)
SlotsUp(b, from, to) == IF from >= to THEN <<>> ELSE <<<<b, from>>>> \o SlotsUp(b, from + 1, to)
RECURSIVE NewestFirst(_, _)
NewestFirst(sizes, b) == IF b = 0 THEN <<>> ELSE SlotsDown(b, sizes[b]) \o NewestFirst(sizes, b - 1)
RECURSIVE NewBundles(_, _, _)
NewBundles(tails, b, count) ==
    IF b > count THEN <<>>
    ELSE SlotsUp(b, 0, Len(tails[b][RID_COLUMN + 1])) \o NewBundles(tails, b + 1, count)

\* the body shared by the three tail-record loops: [tps, already, err]
RECURSIVE MergeScan(_, _, _, _, _, _)
MergeScan(st, range_id, todo, acc, use_already, tails) ==
    IF acc.err \/ todo = <<>> THEN acc
    ELSE LET b == Head(todo)[1]
             slot == Head(todo)[2]
             bpage == tails[b][BASE_RID_COLUMN + 1]
             rpage == tails[b][RID_COLUMN + 1]
         IN IF ~Readable(bpage, slot) THEN [acc EXCEPT !.err = TRUE]
            ELSE LET base_rid == bpage[slot + 1] IN
                 IF base_rid = NULL_RID \/ base_rid = deleted
                    \/ (use_already /\ base_rid \in acc.already)
                    \/ base_rid \notin DOMAIN st.page_directory
                 THEN MergeScan(st, range_id, Tail(todo), acc, use_already, tails)
                 ELSE LET e == st.page_directory[base_rid] IN
                      IF e.is_tail \/ e.range_id # range_id
                      THEN MergeScan(st, range_id, Tail(todo), acc, use_already, tails)
                      ELSE IF ~Readable(rpage, slot) \/ e.page_id >= Len(acc.tps)
                      THEN [acc EXCEPT !.err = TRUE]
                      ELSE MergeScan(st, range_id, Tail(todo),
                                     [acc EXCEPT !.tps[e.page_id + 1] = Max2(@, rpage[slot + 1]),
                                                 !.already = @ \cup {base_rid}],
                                     use_already, tails)

\* the rest of the turn: the scan of the snapshot, then the second locked
\* block (reconcile and publish); an exception ends the thread
MergeReconcileStep(st) ==
    LET range_id == st.merge.range_id
        snap == st.merge.snap
        tails == st.page_ranges[range_id + 1].tail_pages
        a1 == MergeScan(st, range_id, NewestFirst(snap.tail_snapshot_sizes, snap.snapshot_tail_count),
                        [tps |-> snap.merged_tps, already |-> {}, err |-> FALSE], TRUE, tails)
        a2 == MergeScan(st, range_id, NewBundles(tails, snap.snapshot_tail_count + 1, Len(tails)),
                        a1, FALSE, tails)
        a3 == MergeScan(st, range_id,
                        SlotsUp(snap.snapshot_tail_count,
                                snap.tail_snapshot_sizes[snap.snapshot_tail_count],
                                Len(tails[snap.snapshot_tail_count][RID_COLUMN + 1])),
                        a2, FALSE, tails)
    IN IF a3.err THEN [st EXCEPT !.merge = [pc |-> "dead", range_id |-> 0, snap |-> <<>>]]
       ELSE [st EXCEPT !.page_ranges[range_id + 1].pending_merge = <<snap.merged_base, a3.tps>>,
                       !.merge = [pc |-> "snapshot", range_id |-> range_id + 1, snap |-> <<>>]]

\* ------------------------------------------------------------------
\* Persistence (Table.serialize / Table.deserialize, Database.close /
\* Database.open).  st.files maps a page key to the page its file holds,
\* st.tmeta is <<>> or the table's meta.bin, page_directory.bin and
\* range_meta.bin files, st.catalog is <<>> or the tables catalog.bin lists.
\* ------------------------------------------------------------------
\* struct.pack("<qiiii", rid, range_id, 1 if is_tail else 0, page_id, offset)
EncodeEntry(e) == <<e.range_id, IF e.is_tail THEN 1 ELSE 0, e.page_id, e.offset>>
\* (range_id, bool(is_tail_int), page_id, offset)
DecodeEntry(t) == [range_id |-> t[1], is_tail |-> t[2] # 0, page_id |-> t[3], offset |-> t[4]]

\* the page files serialize writes for one bundle list of range i
RECURSIVE SerializePages(_, _, _, _)
SerializePages(st, i, is_tail, todo) ==
    IF todo = {} THEN st
    ELSE LET jc == CHOOSE x \in todo : TRUE
             page_key == make_page_key(i, is_tail, jc[1], jc[2])
             page == IF page_key \in DOMAIN st.frames THEN FramePage(st, page_key)
                     ELSE MemPage(st, page_key)
         IN SerializePages([st EXCEPT !.files = DPut(@, page_key, page)], i, is_tail, todo \ {jc})

\* Table.serialize.  The two page loops stand after the loop over the
\* ranges and use its last i and page_range; with no range they are unbound.
SerializeMeta(st) ==
    [st EXCEPT !.tmeta =
        [next_rid |-> st.next_rid, next_tail_rid |-> st.next_tail_rid,
         num_ranges |-> Len(st.page_ranges),
         page_directory |-> [r \in DOMAIN st.page_directory |-> EncodeEntry(st.page_directory[r])],
         range_meta |-> [i \in 1..Len(st.page_ranges) |->
                            <<Len(st.page_ranges[i].base_pages),
                              Len(st.page_ranges[i].tail_pages)>>]]]

serialize(st) ==
    IF ~Ok(st) THEN st
    ELSE IF Len(st.page_ranges) = 0 THEN Raise(SerializeMeta(st), "NameError")
    ELSE SerializePages(
           SerializePages(SerializeMeta(st), Len(st.page_ranges) - 1, FALSE,
                          (0..(Len(Last(st.page_ranges).base_pages) - 1)) \X (0..(NCOLS - 1))),
           Len(st.page_ranges) - 1, TRUE,
           (0..(Len(Last(st.page_ranges).tail_pages) - 1)) \X (0..(NCOLS - 1)))

\* the catalog write at the end of Database.close
WriteCatalog(st) ==
    IF ~Ok(st) THEN st
    ELSE [st EXCEPT !.catalog = IF st.has_table THEN <<"T">> ELSE <<"none">>]

\* Database.close
close(st) ==
    IF st.db_path = None THEN st
    ELSE WriteCatalog(IF st.has_table THEN serialize(flush_all(st)) ELSE flush_all(st))

\* Table.deserialize: every page file the range metas count must exist
FilesPresent(st) ==
    \A i \in 1..st.tmeta.num_ranges :
        /\ \A j \in 0..(st.tmeta.range_meta[i][1] - 1) : \A c \in 0..(NCOLS - 1) :
              make_page_key(i - 1, FALSE, j, c) \in DOMAIN st.files
        /\ \A j \in 0..(st.tmeta.range_meta[i][2] - 1) : \A c \in 0..(NCOLS - 1) :
              make_page_key(i - 1, TRUE, j, c) \in DOMAIN st.files

deserialize(st) ==
    IF st.tmeta = <<>> \/ ~FilesPresent(st) THEN Raise(st, "FileNotFoundError")
    ELSE [st EXCEPT
            !.next_rid = st.tmeta.next_rid,
            !.next_tail_rid = st.tmeta.next_tail_rid,
            !.page_directory = [r \in DOMAIN st.tmeta.page_directory |->
                                   DecodeEntry(st.tmeta.page_directory[r])],
            !.page_ranges =
                [i \in 1..st.tmeta.num_ranges |->
                    [base_pages |-> [j \in 1..st.tmeta.range_meta[i][1] |->
                                        [c \in 1..NCOLS |->
                                            st.files[make_page_key(i - 1, FALSE, j - 1, c - 1)]]],
                     tail_pages |-> [j \in 1..st.tmeta.range_meta[i][2] |->
                                        [c \in 1..NCOLS |->
                                            st.files[make_page_key(i - 1, TRUE, j - 1, c - 1)]]],
                     tps |-> [j \in 1..st.tmeta.range_meta[i][1] |-> NULL_RID],
                     pending_merge |-> <<>>]]]

\* Database._populate_bufferpool: the page keys in the order of its loops
RECURSIVE RangeKeys(_, _, _, _, _)
RangeKeys(st, range_id, is_tail, page_id, col_index) ==
    IF page_id >= Len(Bundles(st, range_id, is_tail)) THEN <<>>
    ELSE IF col_index >= NCOLS THEN RangeKeys(st, range_id, is_tail, page_id + 1, 0)
    ELSE <<make_page_key(range_id, is_tail, page_id, col_index)>>
         \o RangeKeys(st, range_id, is_tail, page_id, col_index + 1)
RECURSIVE AllKeys(_, _)
AllKeys(st, range_id) ==
    IF range_id >= Len(st.page_ranges) THEN <<>>
    ELSE RangeKeys(st, range_id, FALSE, 0, 0) \o RangeKeys(st, range_id, TRUE, 0, 0)
         \o AllKeys(st, range_id + 1)

RECURSIVE PopulateKeys(_, _)
PopulateKeys(st, todo) ==
    IF ~Ok(st) \/ todo = <<>> THEN st
    ELSE IF Head(todo) \in DOMAIN st.frames THEN PopulateKeys(st, Tail(todo))
    ELSE PopulateKeys(AddFrame(MakeRoom(st), Head(todo), TRUE, <<>>, 0), Tail(todo))
populate_bufferpool(st) == IF ~Ok(st) THEN st ELSE PopulateKeys(st, AllKeys(st, 0))

\* Database._rebuild_primary_index
RECURSIVE RebuildLoop(_, _)
RebuildTake(st, todo) ==
    IF ~Ok(st) THEN st
    ELSE RebuildLoop(IF st.ret.ok
                     THEN IndexInsert(st, st.ret.recs[1].columns[key], Head(todo))
                     ELSE st,
                     Tail(todo))
RebuildLoop(st, todo) ==
    IF ~Ok(st) \/ todo = <<>> THEN st
    ELSE RebuildTake(TableRead(st, Head(todo)), todo)
rebuild_primary_index(st) == IF ~Ok(st) THEN st ELSE RebuildLoop(st, BaseRids(st))

\* Database.__init__, BufferPool.__init__ and Table.__init__ over the files of st
Fresh(st, path) ==
    [page_directory |-> <<>>, page_ranges |-> <<>>,
     indices |-> [c \in UserCols |-> [active |-> c = key, map |-> <<>>]],
     next_rid |-> 0, next_tail_rid |-> TAIL_RID_BASE,
     update_count |-> 0, merge_in_progress |-> FALSE, merge |-> IdleMerge,
     db_path |-> path, has_table |-> FALSE,
     frames |-> <<>>, lru_order |-> <<>>, write_fn |-> path # None,
     files |-> st.files, tmeta |-> st.tmeta, catalog |-> st.catalog,
     exc |-> None, ret |-> [ok |-> FALSE, recs |-> <<>>],
     peak |-> 0, evicted |-> FALSE]

\* "self.tables.append(table)", or the except clause that skips the table
Loaded(st) ==
    IF Ok(st) THEN [st EXCEPT !.has_table = TRUE]
    ELSE [st EXCEPT !.exc = None, !.ret = [ok |-> FALSE, recs |-> <<>>]]

\* Database.open on a new Database object
open(st) ==
    IF st.catalog # <<"T">> THEN Fresh(st, "db")
    ELSE Loaded(rebuild_primary_index(populate_bufferpool(deserialize(Fresh(st, "db")))))

NoFiles == [files |-> <<>>, tmeta |-> <<>>, catalog |-> <<>>]
\* Database.create_table on a new database, opened at path or never opened
create_table(path) == [Fresh(NoFiles, path) EXCEPT !.has_table = TRUE]
\* Database.create_table on a database that holds the table: the table is
\* dropped, every frame of it is deleted from the bufferpool whatever its
\* pin count and dirty flag, and a new table takes its place; the files stay
recreate_table(st) ==
    [Fresh(st, st.db_path) EXCEPT !.has_table = TRUE, !.peak = st.peak, !.evicted = st.evicted]

\* ------------------------------------------------------------------
\* The system
\* ------------------------------------------------------------------
\* db: the Database with its Table, BufferPool, files and merge thread
\* phase: "run" while the process lives, "closed" after Database.close
\* last: the last step: a foreground call, its arguments and what it
\*       returned, or a step of the merge thread;
\*       quiet when the run is not continued from it
\* gh: history: the versions of each inserted record, the records not
\*     deleted, the database as it was just before the last close
\* fg: the foreground threads inside the merge trigger of Table.update
\*     and the merge threads started and not ended
VARIABLES db, phase, last, gh, fg
vars == <<db, phase, last, gh, fg>>

\* what a call returned: raised, or its value
Result(r) == [raised |-> r.exc # None, ok |-> Ok(r) /\ r.ret.ok,
              recs |-> IF Ok(r) THEN r.ret.recs ELSE <<>>]
\* the state a call leaves once its caller has dealt with its outcome
Settle(r) == [r EXCEPT !.exc = None, !.ret = [ok |-> FALSE, recs |-> <<>>]]

\* keys are taken into use in increasing order
InsertVecs(st) == {c \in [UserCols -> KeyVals \cup Vals] :
                      /\ c[key] \in KeyVals /\ c[key] <= st.next_rid + 1
                      /\ \A i \in UserCols \ {key} : c[i] \in Vals}
\* the update vectors: the key entry null, every other entry null or a
\* value no earlier call has used, at least one entry non-null
FreshVal(st) == MaxVal + 1 + (st.next_tail_rid - TAIL_RID_BASE)
UpdateVecs(st) == {c \in [1..NUM_COLUMNS -> {<<>>, <<FreshVal(st)>>}] :
                      c[key + 1] = <<>> /\ \E i \in 1..NUM_COLUMNS : c[i] # <<>>}
AllOnes == [i \in 1..NUM_COLUMNS |-> 1]
BaseRidSet(st) == {r \in DOMAIN st.page_directory : ~st.page_directory[r].is_tail}

NoResult == [raised |-> FALSE, ok |-> FALSE, recs |-> <<>>]
NoCall == [op |-> "none", rid |-> NULL_RID, cols |-> <<>>, res |-> NoResult, pre |-> NoResult,
           quiet |-> FALSE]

\* the foreground threads of the runs with several of them
Threads == 1..MaxThreads
\* no thread is inside the merge trigger, no merge thread runs
NoThreads ==
    [pc |-> [t \in Threads |-> "idle"], local |-> [t \in Threads |-> 0],
     held |-> [t \in Threads |-> <<>>], tasks |-> 0]

Init ==
    /\ db \in {create_table(None), create_table("db")}
    /\ phase = "run"
    /\ last = NoCall
    /\ gh = [versions |-> <<>>, alive |-> {}, reopens |-> 0, deletes |-> 0, faults |-> 0,
             saved |-> <<>>]
    /\ fg = NoThreads

\* the table can be called.  A run is not continued from a call that
\* changed nothing, its continuations being those of the state before,
\* nor from a select or a sum.
Running == phase = "run" /\ db.has_table /\ ~last.quiet /\ gh.faults < MaxFaults

\* a foreground call returned raw (its state, its value, its exception)
Called(op, rid, cols, raw, pre) ==
    /\ db' = Settle(raw)
    /\ last' = [op |-> op, rid |-> rid, cols |-> cols, res |-> Result(raw), pre |-> pre,
                quiet |-> Settle(raw) = db \/ op \in {"select", "sum"}]
    /\ UNCHANGED <<phase, fg>>

\* a foreground call that Query ended before it reached the table
Refused(op, cols) ==
    /\ last' = [op |-> op, rid |-> NULL_RID, cols |-> cols, res |-> NoResult, pre |-> NoResult,
                quiet |-> TRUE]
    /\ UNCHANGED <<db, phase, fg>>

\* the history after a call that returned raw: the copy taken at the last
\* close is dropped, a swallowed exception is counted
Noted(raw) == [gh EXCEPT !.saved = <<>>, !.faults = IF raw.exc # None THEN @ + 1 ELSE @]
Forget == [gh EXCEPT !.saved = <<>>]

\* Query.insert(*columns): the columns are U integers
Inserted(columns, raw) ==
    /\ Called("insert", db.next_rid, columns, raw, NoResult)
    /\ gh' = IF Result(raw).ok
             THEN [Noted(raw) EXCEPT !.versions = DPut(@, db.next_rid, <<columns>>),
                                     !.alive = @ \cup {db.next_rid}]
             ELSE Noted(raw)
Insert(columns) ==
    /\ Running
    /\ Inserted(columns, TableInsert(db, columns))

\* Query.update(primary_key, *columns)
Updated(rid, columns, raw) ==
    /\ Called("update", rid, columns, raw, Result(TableRead(db, rid)))
    /\ gh' = IF Result(raw).ok /\ rid \in DOMAIN gh.versions
             THEN [Noted(raw) EXCEPT !.versions[rid] =
                       Append(@, NewValues(Last(gh.versions[rid]), columns))]
             ELSE Noted(raw)
Update(primary_key, columns) ==
    /\ Running
    /\ IF locate(db, key, primary_key) = <<>>
       THEN Refused("update", columns) /\ gh' = Forget
       ELSE Updated(locate(db, key, primary_key)[1], columns,
                    TableUpdate(db, locate(db, key, primary_key)[1], columns))

\* Query.delete(primary_key)
Deleted(rid, raw) ==
    /\ Called("delete", rid, <<>>, raw, NoResult)
    /\ gh' = IF Result(raw).ok
             THEN [Noted(raw) EXCEPT !.alive = @ \ {rid}, !.deletes = @ + 1]
             ELSE [Noted(raw) EXCEPT !.deletes = @ + 1]
Delete(primary_key) ==
    /\ Running
    /\ gh.deletes < MaxDeletes
    /\ IF locate(db, key, primary_key) = <<>>
       THEN Refused("delete", <<primary_key>>) /\ gh' = Forget
       ELSE Deleted(locate(db, key, primary_key)[1],
                    TableDelete(db, locate(db, key, primary_key)[1]))

\* Query.select(search_key, key, [1, ..., 1])
Selected(search_key, raw) ==
    /\ Called("select", NULL_RID, <<search_key>>, Catch(raw), NoResult)
    /\ gh' = Noted(raw)
Select(search_key) ==
    /\ Running
    /\ Selected(search_key, SelectBody(db, search_key, key, AllOnes))

\* Index.create_index(column_number)
IndexCreated(column_number, raw) ==
    /\ Called("create_index", NULL_RID, <<column_number>>, raw, NoResult)
    /\ gh' = Noted(raw)
CreateIndex(column_number) ==
    /\ Running
    /\ ~db.indices[column_number].active
    /\ gh.reopens = 0
    /\ IndexCreated(column_number, create_index(db, column_number))

\* the merge thread takes the first locked block of a turn
MergeSnapshot ==
    /\ Running
    /\ db.merge.pc = "snapshot"
    /\ db' = MergeSnapshotStep(db)
    /\ last' = [NoCall EXCEPT !.op = "merge"]
    /\ UNCHANGED <<phase, gh, fg>>

\* the merge thread scans, reconciles and publishes
MergeReconcile ==
    /\ Running
    /\ db.merge.pc = "reconcile"
    /\ db' = MergeReconcileStep(db)
    /\ last' = [NoCall EXCEPT !.op = "merge"]
    /\ UNCHANGED <<phase, gh, fg>>

\* Database.close(), after which the process ends: its objects are gone,
\* the files stay.  A run that has created a secondary index is not
\* reopened.
Close ==
    /\ Running
    /\ db.db_path # None
    /\ gh.reopens < MaxReopens
    /\ \A c \in UserCols \ {key} : ~db.indices[c].active
    /\ db' = [Fresh(close(db), None) EXCEPT !.peak = db.peak, !.evicted = db.evicted]
    /\ phase' = "closed"
    /\ last' = [NoCall EXCEPT !.op = "close"]
    /\ gh' = [gh EXCEPT !.saved = db, !.reopens = @ + 1]
    /\ UNCHANGED fg

\* a new process: Database().open(path)
Open ==
    /\ phase = "closed"
    /\ db' = [open(db) EXCEPT !.peak = Max2(@, db.peak), !.evicted = @ \/ db.evicted]
    /\ phase' = "run"
    /\ last' = [NoCall EXCEPT !.op = "open"]
    /\ UNCHANGED <<gh, fg>>

\* the calls of a run are bounded: n inserts, n updates
InsertsLeft(n) == db.next_rid < n
UpdatesLeft(n) == db.next_tail_rid < TAIL_RID_BASE + n

Next ==
    \/ \E columns \in InsertVecs(db) : InsertsLeft(MaxInserts) /\ Insert(columns)
    \/ \E k \in KeyVals, columns \in UpdateVecs(db) :
          UpdatesLeft(MaxUpdates) /\ Update(k, columns)
    \/ \E k \in KeyVals : Delete(k)
    \/ \E k \in KeyVals : Select(k)
    \/ \E c \in UserCols \ {key} : CreateIndex(c)
    \/ MergeSnapshot
    \/ MergeReconcile
    \/ Close
    \/ Open

Spec == Init /\ [][Next]_vars

\* Runs on an opened database that only insert, update and delete while
\* the merge thread works, with one more update than Spec allows
MergeInit ==
    /\ db = create_table("db")
    /\ phase = "run"
    /\ last = NoCall
    /\ gh = [versions |-> <<>>, alive |-> {}, reopens |-> 0, deletes |-> 0, faults |-> 0,
             saved |-> <<>>]
    /\ fg = NoThreads
MergeNext ==
    \/ \E columns \in InsertVecs(db) : InsertsLeft(MaxInserts) /\ Insert(columns)
    \/ \E k \in KeyVals, columns \in UpdateVecs(db) :
          UpdatesLeft(MaxMergeUpdates) /\ Update(k, columns)
    \/ \E k \in KeyVals : Delete(k)
    \/ MergeSnapshot
    \/ MergeReconcile
MergeSpec == MergeInit /\ [][MergeNext]_vars

\* Runs on an opened database in which the merge thread, once started, is
\* not scheduled before the database is closed
PersistNext ==
    \/ \E columns \in InsertVecs(db) : InsertsLeft(MaxInserts) /\ Insert(columns)
    \/ \E k \in KeyVals, columns \in UpdateVecs(db) :
          UpdatesLeft(MaxUpdates) /\ Update(k, columns)
    \/ \E k \in KeyVals : Delete(k)
    \/ Close
    \/ Open
PersistSpec == MergeInit /\ [][PersistNext]_vars

\* Database.create_table(name, ...) with the name of the table the database
\* holds, at any moment of a run, also after a call that raised.  The run
\* is not continued with the new table.
CreateTable ==
    /\ phase = "run" /\ db.has_table /\ db.db_path # None
    /\ last.op # "create_table"
    /\ db' = recreate_table(db)
    /\ last' = [NoCall EXCEPT !.op = "create_table", !.quiet = TRUE]
    /\ gh' = [versions |-> <<>>, alive |-> {}, reopens |-> gh.reopens, deletes |-> gh.deletes,
              faults |-> gh.faults, saved |-> <<>>]
    /\ UNCHANGED <<phase, fg>>

\* Runs on an opened database whose table may be created anew, the merge
\* thread not being scheduled
PoolNext ==
    \/ \E columns \in InsertVecs(db) : InsertsLeft(MaxInserts) /\ Insert(columns)
    \/ \E k \in KeyVals, columns \in UpdateVecs(db) :
          UpdatesLeft(MaxUpdates) /\ Update(k, columns)
    \/ \E k \in KeyVals : Delete(k)
    \/ CreateTable
PoolSpec == MergeInit /\ [][PoolNext]_vars

\* Runs of a never opened database that insert one new key after the
\* other until the base RIDs have passed the first tail RID, with updates
\* of the first records at any moment
NextRecord(st) == [c \in UserCols |-> IF c = key THEN st.next_rid + 1 ELSE 0]
RidInit ==
    /\ db = create_table(None)
    /\ phase = "run"
    /\ last = NoCall
    /\ gh = [versions |-> <<>>, alive |-> {}, reopens |-> 0, deletes |-> 0, faults |-> 0,
             saved |-> <<>>]
    /\ fg = NoThreads
RidNext ==
    \/ InsertsLeft(TAIL_RID_BASE + 1) /\ Insert(NextRecord(db))
    \/ \E k \in KeyVals, columns \in UpdateVecs(db) :
          UpdatesLeft(MaxRidUpdates) /\ Update(k, columns)
RidSpec == RidInit /\ [][RidNext]_vars

\* Query.sum(start_range, end_range, aggregate_column_index)
Summed(cols, raw) ==
    /\ Called("sum", NULL_RID, cols, Catch(raw), NoResult)
    /\ gh' = Noted(raw)
Sum(start_range, end_range, aggregate_column_index) ==
    /\ Running
    /\ start_range <= end_range
    /\ Summed(<<start_range, end_range, aggregate_column_index>>,
              SumBody(db, start_range, end_range, aggregate_column_index))

\* Runs on an opened database that insert, update, delete and sum while
\* the merge thread works
SumNext ==
    \/ \E columns \in InsertVecs(db) : InsertsLeft(MaxInserts) /\ Insert(columns)
    \/ \E k \in KeyVals, columns \in UpdateVecs(db) :
          UpdatesLeft(MaxUpdates) /\ Update(k, columns)
    \/ \E k \in KeyVals : Delete(k)
    \/ \E lo \in KeyVals, hi \in KeyVals, c \in UserCols : Sum(lo, hi, c)
    \/ MergeSnapshot
    \/ MergeReconcile
SumSpec == MergeInit /\ [][SumNext]_vars

\* update vectors with a value no page slot can hold
WideVecs == {c \in [1..NUM_COLUMNS -> {<<>>, <<INT64_MAX + 1>>}] :
                c[key + 1] = <<>> /\ \E i \in 1..NUM_COLUMNS : c[i] # <<>>}

\* Runs in which an update may be given a value that Page.write refuses,
\* while the merge thread works
WriteNext ==
    \/ \E columns \in InsertVecs(db) : InsertsLeft(MaxInserts) /\ Insert(columns)
    \/ \E k \in KeyVals, columns \in UpdateVecs(db) :
          UpdatesLeft(MaxUpdates) /\ Update(k, columns)
    \/ \E k \in KeyVals, columns \in WideVecs :
          UpdatesLeft(MaxUpdates + 1) /\ Update(k, columns)
    \/ \E k \in KeyVals : Delete(k)
    \/ MergeSnapshot
    \/ MergeReconcile
WriteSpec == Init /\ [][WriteNext]_vars

\* Table.update up to "self.update_count += 1": the merge trigger is left
\* to the steps below
UpdateBody(st, rid, columns) ==
    [TableUpdate(st, rid, columns) EXCEPT !.update_count = st.update_count,
                                          !.merge_in_progress = st.merge_in_progress,
                                          !.merge = st.merge]

\* thread t calls Query.update and runs Table.update up to the trigger
FgUpdate(t, primary_key, columns) ==
    /\ phase = "run" /\ fg.pc[t] = "idle"
    /\ locate(db, key, primary_key) # <<>>
    /\ db' = Settle(UpdateBody(db, locate(db, key, primary_key)[1], columns))
    /\ fg' = [fg EXCEPT !.pc[t] =
                  IF Result(UpdateBody(db, locate(db, key, primary_key)[1], columns)).ok
                  THEN "load" ELSE "idle"]
    /\ last' = [NoCall EXCEPT !.op = "update"]
    /\ UNCHANGED <<phase, gh>>

\* "self.update_count += 1": the read
FgLoad(t) ==
    /\ fg.pc[t] = "load"
    /\ fg' = [fg EXCEPT !.pc[t] = "store", !.local[t] = db.update_count]
    /\ UNCHANGED <<db, phase, last, gh>>
\* "self.update_count += 1": the write
FgStore(t) ==
    /\ fg.pc[t] = "store"
    /\ db' = [db EXCEPT !.update_count = fg.local[t] + 1]
    /\ fg' = [fg EXCEPT !.pc[t] = "test", !.local[t] = 0]
    /\ UNCHANGED <<phase, last, gh>>
\* "if self.update_count >= self.merge_threshold_pages and not self.merge_in_progress"
FgTest(t) ==
    /\ fg.pc[t] = "test"
    /\ fg' = [fg EXCEPT !.pc[t] =
                  IF db.update_count >= MERGE_THRESHOLD /\ ~db.merge_in_progress
                  THEN "reset" ELSE "idle"]
    /\ UNCHANGED <<db, phase, last, gh>>
\* "self.update_count = 0"
FgReset(t) ==
    /\ fg.pc[t] = "reset"
    /\ db' = [db EXCEPT !.update_count = 0]
    /\ fg' = [fg EXCEPT !.pc[t] = "flag"]
    /\ UNCHANGED <<phase, last, gh>>
\* "self.merge_in_progress = True"
FgFlag(t) ==
    /\ fg.pc[t] = "flag"
    /\ db' = [db EXCEPT !.merge_in_progress = TRUE]
    /\ fg' = [fg EXCEPT !.pc[t] = "start"]
    /\ UNCHANGED <<phase, last, gh>>
\* "t.start()": one more merge thread runs
FgStart(t) ==
    /\ fg.pc[t] = "start"
    /\ fg' = [fg EXCEPT !.pc[t] = "idle", !.tasks = @ + 1]
    /\ UNCHANGED <<db, phase, last, gh>>
\* a merge thread reaches "self.merge_in_progress = False" and ends; what
\* it does to the pages is left to MergeSpec
TaskEnd ==
    /\ fg.tasks > 0
    /\ db' = [db EXCEPT !.merge_in_progress = FALSE]
    /\ fg' = [fg EXCEPT !.tasks = @ - 1]
    /\ UNCHANGED <<phase, last, gh>>

\* Runs of several foreground threads that update the records of an
\* opened database, each going through the merge trigger statement by
\* statement
TriggerNext ==
    \/ \E columns \in InsertVecs(db) : InsertsLeft(MaxInserts) /\ Insert(columns)
    \/ \E t \in Threads, k \in KeyVals, columns \in UpdateVecs(db) :
          UpdatesLeft(MaxUpdates) /\ FgUpdate(t, k, columns)
    \/ \E t \in Threads : FgLoad(t)
    \/ \E t \in Threads : FgStore(t)
    \/ \E t \in Threads : FgTest(t)
    \/ \E t \in Threads : FgReset(t)
    \/ \E t \in Threads : FgFlag(t)
    \/ \E t \in Threads : FgStart(t)
    \/ TaskEnd
TriggerSpec == MergeInit /\ [][TriggerNext]_vars

\* the same calls with a scheduler that lets a live merge thread run: a
\* thread that can take a step is not passed over for ever
MergeFairSpec == MergeInit /\ [][MergeNext]_vars /\ WF_vars(MergeSnapshot) /\ WF_vars(MergeReconcile)

\* ------------------------------------------------------------------
\* Table.read(rid) of a foreground thread, taken apart where
\* _apply_pending_merge leaves room for other threads: between its read of
\* page_range.pending_merge and its "with self.merge_lock".  The calls of
\* MergeNext are those of another foreground thread.
\* ------------------------------------------------------------------
SlotOf(st, rid) == st.page_ranges[st.page_directory[rid].range_id + 1].pending_merge
\* "pending = page_range.pending_merge" finds a result
ReadObserve(t, rid) ==
    /\ Running
    /\ fg.pc[t] = "idle"
    /\ rid \in BaseRidSet(db)
    /\ SlotOf(db, rid) # <<>>
    /\ fg' = [fg EXCEPT !.pc[t] = "lock", !.local[t] = rid, !.held[t] = SlotOf(db, rid)]
    /\ UNCHANGED <<db, phase, last, gh>>
\* the locked block with the pair read before, then the rest of the call
LockedApply(st, rid, pending) ==
    IF SlotOf(st, rid) = <<>> THEN st
    ELSE InstallPending(st, st.page_directory[rid].range_id, pending)
ReadInstall(t) ==
    /\ phase = "run"
    /\ fg.pc[t] = "lock"
    /\ db' = Settle(TableRead(LockedApply(db, fg.local[t], fg.held[t]), fg.local[t]))
    /\ fg' = [fg EXCEPT !.pc[t] = "idle", !.local[t] = 0, !.held[t] = <<>>]
    /\ UNCHANGED <<phase, last, gh>>
ApplyNext ==
    \/ \E columns \in InsertVecs(db) : InsertsLeft(MaxInserts) /\ Insert(columns)
    \/ \E k \in KeyVals, columns \in UpdateVecs(db) :
          UpdatesLeft(MaxMergeUpdates) /\ Update(k, columns)
    \/ MergeSnapshot
    \/ MergeReconcile
    \/ \E rid \in BaseRidSet(db) : ReadObserve(1, rid)
    \/ ReadInstall(1)
ApplySpec == MergeInit /\ [][ApplyNext]_vars

\* Table.delete(rid) called with the RID of any record the page directory
\* has, base or tail
DeleteRecord(rid) ==
    /\ Running
    /\ gh.deletes < MaxDeletes
    /\ Deleted(rid, TableDelete(db, rid))
\* Runs in which the table's delete is given base and tail RIDs; the merge
\* thread, once started, is not scheduled
DeleteNext ==
    \/ \E columns \in InsertVecs(db) : InsertsLeft(MaxInserts) /\ Insert(columns)
    \/ \E k \in KeyVals, columns \in UpdateVecs(db) :
          UpdatesLeft(MaxUpdates) /\ Update(k, columns)
    \/ \E rid \in DOMAIN db.page_directory : DeleteRecord(rid)
DeleteSpec == MergeInit /\ [][DeleteNext]_vars

\* ------------------------------------------------------------------
\* Foreground threads inside Table.insert and Table.update.  No lock is
\* taken by either; a thread is left at the statements that read and
\* write the table's counters.
\* ------------------------------------------------------------------
\* Table.insert from "self.next_rid += 1" on, with rid read before
InsertAs(st, rid, columns) ==
    InsertRange(InsertNewRange([st EXCEPT !.next_rid = @ + 1]), rid, columns)

\* thread t calls Table.insert: the look-up of the key, "rid = self.next_rid"
FgInsertRid(t, columns) ==
    /\ phase = "run" /\ gh.faults < MaxFaults /\ fg.pc[t] = "idle"
    /\ locate(db, key, columns[key]) = <<>>
    /\ fg' = [fg EXCEPT !.pc[t] = "rid", !.local[t] = db.next_rid, !.held[t] = <<columns>>]
    /\ last' = [NoCall EXCEPT !.op = "insert"]
    /\ UNCHANGED <<db, phase, gh>>
\* the rest of Table.insert
FgInsertRest(t) ==
    /\ fg.pc[t] = "rid"
    /\ db' = Settle(InsertAs(db, fg.local[t], fg.held[t][1]))
    /\ gh' = IF Result(InsertAs(db, fg.local[t], fg.held[t][1])).ok
             THEN [Noted(InsertAs(db, fg.local[t], fg.held[t][1])) EXCEPT
                      !.versions = DPut(@, fg.local[t], <<fg.held[t][1]>>),
                      !.alive = @ \cup {fg.local[t]}]
             ELSE Noted(InsertAs(db, fg.local[t], fg.held[t][1]))
    /\ fg' = [fg EXCEPT !.pc[t] = "idle", !.local[t] = 0, !.held[t] = <<>>]
    /\ last' = [NoCall EXCEPT !.op = "insert", !.rid = fg.local[t]]
    /\ UNCHANGED phase

\* Table.update up to the bitmask: the base bundle is fetched and stays
\* pinned, the bundle of the previous tail record is fetched and unpinned
UpdateFetch(st, e) ==
    IF IndValue(GetEntry(st, e), e) = NULL_RID THEN GetEntry(st, e)
    ELSE UnpinEntry(GetEntry(GetEntry(st, e), st.page_directory[IndValue(GetEntry(st, e), e)]),
                    st.page_directory[IndValue(GetEntry(st, e), e)], FALSE)
\* prev_tail_rid and current_values as that part of Table.update reads them
PrevTailRid(st, e) == IndValue(GetEntry(st, e), e)
CurrentValues(st, e) ==
    IF PrevTailRid(st, e) = NULL_RID THEN UserValues(GetEntry(st, e), e)
    ELSE UserValues(GetEntry(GetEntry(st, e), st.page_directory[PrevTailRid(st, e)]),
                    st.page_directory[PrevTailRid(st, e)])
\* Table.update from "self.next_tail_rid += 1" on, the merge trigger left out
UpdateAs(st, h, new_tail_rid) ==
    [UpdatePlace(NewTailBundle([st EXCEPT !.next_tail_rid = @ + 1], h[2].range_id),
                 h[1], h[2], h[4], h[5], h[3], new_tail_rid)
     EXCEPT !.update_count = st.update_count,
            !.merge_in_progress = st.merge_in_progress,
            !.merge = st.merge]

\* thread t calls Table.update for a call that goes on to write: the reads
\* of prev_tail_rid and current_values
FgUpdateRead(t, primary_key, columns) ==
    /\ phase = "run" /\ gh.faults < MaxFaults /\ fg.pc[t] = "idle"
    /\ locate(db, key, primary_key) # <<>>
    /\ Result(TableUpdate(db, locate(db, key, primary_key)[1], columns)).ok
    /\ db' = UpdateFetch(db, db.page_directory[locate(db, key, primary_key)[1]])
    /\ fg' = [fg EXCEPT !.pc[t] = "fetched",
                        !.held[t] = <<locate(db, key, primary_key)[1],
                                      db.page_directory[locate(db, key, primary_key)[1]],
                                      columns,
                                      PrevTailRid(db, db.page_directory[locate(db, key, primary_key)[1]]),
                                      CurrentValues(db, db.page_directory[locate(db, key, primary_key)[1]])>>]
    /\ last' = [NoCall EXCEPT !.op = "update"]
    /\ UNCHANGED <<phase, gh>>
\* "new_tail_rid = self.next_tail_rid"
FgTailRid(t) ==
    /\ fg.pc[t] = "fetched"
    /\ fg' = [fg EXCEPT !.pc[t] = "tail", !.local[t] = db.next_tail_rid]
    /\ UNCHANGED <<db, phase, last, gh>>
\* the rest of Table.update
FgUpdateRest(t) ==
    /\ fg.pc[t] = "tail"
    /\ db' = Settle(UpdateAs(db, fg.held[t], fg.local[t]))
    /\ gh' = IF Result(UpdateAs(db, fg.held[t], fg.local[t])).ok
                /\ fg.held[t][1] \in DOMAIN gh.versions
             THEN [Noted(UpdateAs(db, fg.held[t], fg.local[t])) EXCEPT
                      !.versions[fg.held[t][1]] =
                          Append(@, NewValues(fg.held[t][5], fg.held[t][3]))]
             ELSE Noted(UpdateAs(db, fg.held[t], fg.local[t]))
    /\ fg' = [fg EXCEPT !.pc[t] = "idle", !.local[t] = 0, !.held[t] = <<>>]
    /\ last' = [NoCall EXCEPT !.op = "update", !.rid = fg.held[t][1]]
    /\ UNCHANGED phase

\* Runs of several foreground threads that insert and update on an opened
\* database, the merge thread not being scheduled
RaceNext ==
    \/ \E t \in Threads, columns \in InsertVecs(db) :
          InsertsLeft(MaxInserts) /\ FgInsertRid(t, columns)
    \/ \E t \in Threads : FgInsertRest(t)
    \/ \E t \in Threads, k \in KeyVals, columns \in UpdateVecs(db) :
          UpdatesLeft(MaxUpdates) /\ FgUpdateRead(t, k, columns)
    \/ \E t \in Threads : FgTailRid(t)
    \/ \E t \in Threads : FgUpdateRest(t)
RaceSpec == MergeInit /\ [][RaceNext]_vars

\* ------------------------------------------------------------------
\* Several threads inside BufferPool.get_page, unpin and register_page.
\* The bufferpool takes no lock; a thread is left between the test of
\* "page_key in self.frames" and what follows it (load_fn reads a file).
\* fg.local[t] is the position in PoolKeys of the key of thread t's call,
\* fg.held[t] the keys thread t fetched and has not unpinned yet.
\* ------------------------------------------------------------------
\* a table of three records, one of them updated once, on an opened
\* database: more pages than the pool has frames
Seeded ==
    Settle(TableUpdate(
        Settle(TableInsert(
            Settle(TableInsert(
                Settle(TableInsert(create_table("db"), [c \in UserCols |-> IF c = key THEN 1 ELSE 0])),
                [c \in UserCols |-> IF c = key THEN 2 ELSE 0])),
            [c \in UserCols |-> IF c = key THEN 3 ELSE 0])),
        0, [i \in 1..NUM_COLUMNS |-> IF i = key + 1 THEN <<>> ELSE <<1>>]))
\* the keys the threads ask for
PoolKeys ==
    <<make_page_key(0, FALSE, 0, RID_COLUMN), make_page_key(0, TRUE, 0, RID_COLUMN),
      make_page_key(0, FALSE, 1, RID_COLUMN)>>
FrameInit ==
    /\ db = Seeded
    /\ phase = "run"
    /\ last = NoCall
    /\ gh = [versions |-> <<>>, alive |-> {}, reopens |-> 0, deletes |-> 0, faults |-> 0,
             saved |-> <<>>]
    /\ fg = NoThreads

\* get_page: "if page_key in self.frames"
PoolTest(t, i) ==
    /\ fg.pc[t] = "idle" /\ Len(fg.held[t]) < MaxHeld
    /\ fg' = [fg EXCEPT !.pc[t] = IF PoolKeys[i] \in DOMAIN db.frames THEN "hit" ELSE "miss",
                        !.local[t] = i]
    /\ UNCHANGED <<db, phase, last, gh>>
\* get_page, the hit: move_to_end raises KeyError when the frame is gone
PoolHit(t) ==
    /\ fg.pc[t] = "hit"
    /\ db' = IF PoolKeys[fg.local[t]] \in DOMAIN db.frames
             THEN GetPage(db, PoolKeys[fg.local[t]]) ELSE db
    /\ fg' = [fg EXCEPT !.pc[t] = "idle", !.local[t] = 0,
                        !.held[t] = IF PoolKeys[fg.local[t]] \in DOMAIN db.frames
                                    THEN Append(@, PoolKeys[fg.local[t]]) ELSE @]
    /\ UNCHANGED <<phase, last, gh>>
\* get_page, the miss after load_fn: room is made, the new frame is installed
InstallFrame(st, k) == AddFrame(MakeRoom(st), k, LoadShared(st, k), LoadPage(st, k), 1)
PoolInstall(t) ==
    /\ fg.pc[t] = "miss"
    /\ db' = Settle(InstallFrame(db, PoolKeys[fg.local[t]]))
    /\ fg' = [fg EXCEPT !.pc[t] = "idle", !.local[t] = 0,
                        !.held[t] = IF Ok(InstallFrame(db, PoolKeys[fg.local[t]]))
                                    THEN Append(@, PoolKeys[fg.local[t]]) ELSE @]
    /\ UNCHANGED <<phase, last, gh>>
\* unpin of a page the thread holds
PoolUnpin(t, j) ==
    /\ fg.pc[t] = "idle" /\ j \in 1..Len(fg.held[t])
    /\ db' = Unpin(db, fg.held[t][j], FALSE)
    /\ fg' = [fg EXCEPT !.held[t] = RemoveAt(@, j)]
    /\ UNCHANGED <<phase, last, gh>>
\* register_page: "if page_key in self.frames: return"
PoolRegTest(t, i) ==
    /\ fg.pc[t] = "idle" /\ PoolKeys[i] \notin DOMAIN db.frames
    /\ fg' = [fg EXCEPT !.pc[t] = "register", !.local[t] = i]
    /\ UNCHANGED <<db, phase, last, gh>>
\* register_page: room is made, the frame is installed with pin_count 0
RegisterFrame(st, k) == AddFrame(MakeRoom(st), k, TRUE, <<>>, 0)
PoolRegInstall(t) ==
    /\ fg.pc[t] = "register"
    /\ db' = Settle(RegisterFrame(db, PoolKeys[fg.local[t]]))
    /\ fg' = [fg EXCEPT !.pc[t] = "idle", !.local[t] = 0]
    /\ UNCHANGED <<phase, last, gh>>

FrameNext ==
    \/ \E t \in Threads, i \in 1..Len(PoolKeys) : PoolTest(t, i)
    \/ \E t \in Threads : PoolHit(t)
    \/ \E t \in Threads : PoolInstall(t)
    \/ \E t \in Threads, j \in 1..MaxHeld : PoolUnpin(t, j)
    \/ \E t \in Threads, i \in 1..Len(PoolKeys) : PoolRegTest(t, i)
    \/ \E t \in Threads : PoolRegInstall(t)
FrameSpec == FrameInit /\ [][FrameNext]_vars

\* ------------------------------------------------------------------
\* Properties
\* ------------------------------------------------------------------
\* what Table.read(rid) gives its caller in state st
ReadResult(st, rid) == Result(TableRead(st, rid))
\* read(rid) is null
ReadsNull(st, rid) == ~ReadResult(st, rid).ok /\ ~ReadResult(st, rid).raised
\* read(rid) is a record with these user columns
ReadsColumns(st, rid, columns) ==
    ReadResult(st, rid).ok /\ ReadResult(st, rid).recs[1].columns = columns

\* C1: immediately after Table.update(rid, D) has returned true, read(rid)
\* has D[i] in every column i where D[i] is non-null and, in every other
\* column, the value read(rid) returned just before the update.
C1_UpdateThenRead ==
    (phase = "run" /\ last.op = "update" /\ last.res.ok) =>
        /\ last.pre.ok
        /\ ReadsColumns(db, last.rid, NewValues(last.pre.recs[1].columns, last.cols))

\* the columns an inserted record was given, and its key value
InsertedColumns(rid) == gh.versions[rid][1]
KeyOf(rid) == gh.versions[rid][1][key]
\* the number of updates of the record that returned true
UpdatesOf(rid) == Len(gh.versions[rid]) - 1

\* C2: a record whose insert returned true with base RID rid, and which has
\* been neither updated nor deleted since, reads back with the inserted
\* columns, and index.locate(key, its key value) contains rid.
C2_InsertThenRead ==
    phase = "run" =>
        \A rid \in gh.alive :
            UpdatesOf(rid) = 0 =>
                /\ ReadsColumns(db, rid, InsertedColumns(rid))
                /\ SeqHas(locate(db, key, KeyOf(rid)), rid)

\* the values of the record before its v-th most recent update, the
\* inserted values when it has had fewer than v updates
VersionBefore(rid, v) ==
    IF v <= UpdatesOf(rid) THEN gh.versions[rid][Len(gh.versions[rid]) - v]
    ELSE InsertedColumns(rid)
\* select_version answered with one record of these values
AnswersColumns(res, columns) ==
    res.ok /\ Len(res.recs) = 1 /\ res.recs[1].columns = Project(columns, AllOnes)
VersionResult(st, search_key, v) == Result(select_version(st, search_key, key, AllOnes, -v))

\* C3: for a live base record with k updates that returned true,
\* select_version(key, key column, all ones, -v) returns the values before
\* the v-th most recent update for v in 1..k, and the inserted values for
\* v > k.
C3_SelectVersion ==
    phase = "run" =>
        \A rid \in gh.alive : \A v \in 1..MaxBack :
            AnswersColumns(VersionResult(db, KeyOf(rid), v), VersionBefore(rid, v))

\* the INDIRECTION slot of the entry, read from its fetched bundle, is DELETED
SlotDeleted(st, e) == Ok(st) /\ IndReadable(st, e) /\ IndValue(st, e) = deleted
HoldsDeleted(st, rid) == SlotDeleted(GetEntry(st, st.page_directory[rid]), st.page_directory[rid])
\* an RID list of the primary index or of an active secondary index has rid
Indexed(st, rid) ==
    \E c \in UserCols :
        /\ st.indices[c].active
        /\ \E value \in DOMAIN st.indices[c].map : SeqHas(st.indices[c].map[value], rid)

\* C4: in every reachable state, a base RID of the page directory whose
\* INDIRECTION slot holds DELETED reads null and is in no RID list of the
\* primary index or of an active secondary index.
C4_DeletedHidden ==
    phase = "run" =>
        \A rid \in BaseRidSet(db) :
            HoldsDeleted(db, rid) => ReadsNull(db, rid) /\ ~Indexed(db, rid)

\* a record inserted and not deleted since holds the key value
KeyInUse(k) == \E rid \in gh.alive : KeyOf(rid) = k
\* the contents of every page the table can reach: in the ranges, in the
\* frames and in the files
PageContents(st) ==
    [ranges |-> st.page_ranges, frames |-> [k \in DOMAIN st.frames |-> st.frames[k].page],
     files |-> st.files]
\* nothing of the table differs between st and after
NothingChanged(st, after) ==
    /\ PageContents(after) = PageContents(st)
    /\ after.next_rid = st.next_rid
    /\ after.page_directory = st.page_directory
    /\ after.indices = st.indices

SlotLive(st, e) == Ok(st) /\ IndReadable(st, e) /\ IndValue(st, e) # deleted
Live(st, rid) == SlotLive(GetEntry(st, st.page_directory[rid]), st.page_directory[rid])
\* the key value stored with the base record
StoredKey(st, rid) == Result(ReadWithoutIndirection(st, rid)).recs[1].columns[key]
HasStoredKey(st, rid) == Result(ReadWithoutIndirection(st, rid)).ok
LiveWithKey(st, rid) == Live(st, rid) /\ HasStoredKey(st, rid)

\* C6: in every state, no two live base records hold the same key value,
\* and the primary index maps the key value of a live base record to
\* exactly that record's RID.
C6_PrimaryUnique ==
    phase = "run" =>
        \A rid \in BaseRidSet(db) :
            LiveWithKey(db, rid) =>
                /\ locate(db, key, StoredKey(db, rid)) = <<rid>>
                /\ \A other \in BaseRidSet(db) \ {rid} :
                      LiveWithKey(db, other) => StoredKey(db, other) # StoredKey(db, rid)

\* the records deleted with the key value k
DeletedWithKey(k) == {rid \in (DOMAIN gh.versions) \ gh.alive : KeyOf(rid) = k}
\* select on the key returns exactly one record, with these columns
SelectsExactly(st, k, columns) ==
    AnswersColumns(Result(select(st, k, key, AllOnes)), columns)
\* the last call was an insert of a key that a deleted record had and no
\* live record has
Reinsert ==
    /\ phase = "run" /\ last.op = "insert"
    /\ DeletedWithKey(last.cols[key]) # {}
    /\ \A rid \in gh.alive \ {last.rid} : KeyOf(rid) # last.cols[key]

\* C7: after the record with key k is deleted, an insert with key k
\* succeeds and gets a base RID other than the deleted one; select on k
\* then returns exactly the new values and read of the old RID is null.
C7_DeleteReinsert ==
    Reinsert =>
        /\ last.res.ok
        /\ last.rid \notin DeletedWithKey(last.cols[key])
        /\ SelectsExactly(db, last.cols[key], last.cols)
        /\ \A old \in DeletedWithKey(last.cols[key]) : ReadsNull(db, old)

\* the database has just been closed and opened again; gh.saved is the
\* database as it was when close was called
Reopened == phase = "run" /\ last.op = "open" /\ gh.saved # <<>>
\* read(rid) gives the same in both states
SameRead(a, b, rid) == ReadResult(a, rid) = ReadResult(b, rid)
\* the version stored under rid, base or tail, is the same in both states
SameVersion(a, b, rid) ==
    Result(ReadWithoutIndirection(a, rid)) = Result(ReadWithoutIndirection(b, rid))

\* C8: after close() and open() on the same path of a database whose table
\* has records, the table is there and,
\* for every RID of the page directory before the close, read(rid) returns
\* what it returned before the close (null for a deleted record) and the
\* version stored under every base and tail RID is unchanged.
C8_RoundTrip ==
    (Reopened /\ BaseRidSet(gh.saved) # {}) =>
        /\ db.has_table
        /\ \A rid \in BaseRidSet(gh.saved) : SameRead(db, gh.saved, rid)
        /\ \A rid \in DOMAIN gh.saved.page_directory : SameVersion(db, gh.saved, rid)

\* the RID lists of the primary index hold exactly the live base records,
\* each under its key value
PrimaryIndexExact(st) ==
    /\ \A rid \in BaseRidSet(st) :
          LiveWithKey(st, rid) => SeqHas(locate(st, key, StoredKey(st, rid)), rid)
    /\ \A value \in DOMAIN st.indices[key].map :
          \A i \in 1..Len(st.indices[key].map[value]) :
              /\ st.indices[key].map[value][i] \in BaseRidSet(st)
              /\ LiveWithKey(st, st.indices[key].map[value][i])
              /\ StoredKey(st, st.indices[key].map[value][i]) = value
\* select and select_version on the key answer the same in both states
SameSelect(a, b, k) ==
    Result(select(a, k, key, AllOnes)) = Result(select(b, k, key, AllOnes))
SameSelectVersion(a, b, k, v) == VersionResult(a, k, v) = VersionResult(b, k, v)

\* C9: after close() and open() of a database whose table has records,
\* the rebuilt primary index has every live
\* base record under its key value and no deleted record and no tail RID,
\* and select and select_version on a key return what they returned before
\* the close.
C9_RebuiltIndex ==
    (Reopened /\ BaseRidSet(gh.saved) # {}) =>
        /\ PrimaryIndexExact(db)
        /\ \A k \in KeyVals : SameSelect(db, gh.saved, k)
        /\ \A k \in KeyVals : \A v \in 1..MaxBack : SameSelectVersion(db, gh.saved, k, v)

\* C10: the bufferpool never holds more than pool_size frames, at the end
\* of a call and at any moment within one.
C10_PoolCapacity ==
    /\ Cardinality(DOMAIN db.frames) <= pool_size
    /\ db.peak <= pool_size
\* a full pool that has evicted, after the warm-up of an open
C10_Witness ==
    /\ last.op = "open" /\ db.has_table
    /\ Cardinality(DOMAIN db.frames) = pool_size
    /\ db.evicted

\* the frames of st that are pinned
PinnedKeys(st) == {k \in DOMAIN st.frames : st.frames[k].pin_count > 0}
\* the pool is full and every frame of it is pinned
AllPinnedFull(st) ==
    Cardinality(DOMAIN st.frames) >= pool_size /\ PinnedKeys(st) = DOMAIN st.frames
\* the bufferpool's own state is the same in both states
SamePool(a, b) == a.frames = b.frames /\ a.lru_order = b.lru_order
\* the bufferpool call that gave after fails and changes nothing of the pool
FailsUnchanged(st, after) == ~Ok(after) /\ SamePool(st, after)
\* the page keys of the bundles of the table that have no frame
Unframed(st) ==
    {AllKeys(st, 0)[i] : i \in 1..Len(AllKeys(st, 0))} \ DOMAIN st.frames

\* C11: no pinned frame is ever removed from the bufferpool: a frame that
\* is pinned before a step of the running process is still in the frame
\* table after it, and _evict removes no pinned frame; with the pool full
\* and every frame pinned, get_page on a miss and register_page fail and
\* leave frames, LRU order, pin counts and dirty flags as they were.
C11_PinnedNeverRemoved ==
    [][(phase = "run" /\ phase' = "run") =>
          /\ PinnedKeys(db) \subseteq DOMAIN db'.frames
          /\ PinnedKeys(db) \subseteq DOMAIN Evict(db).frames
          /\ AllPinnedFull(db) =>
                \A k \in Unframed(db) :
                    /\ FailsUnchanged(db, GetPage(db, k))
                    /\ FailsUnchanged(db, RegisterPage(db, k))]_vars

\* the merge thread run from its start to its end with no other step between
RECURSIVE MergeRun(_)
MergeRun(st) ==
    IF st.merge.pc = "snapshot" THEN MergeRun(MergeSnapshotStep(st))
    ELSE IF st.merge.pc = "reconcile" THEN MergeRun(MergeReconcileStep(st))
    ELSE st
StartMerge(st) ==
    [st EXCEPT !.merge_in_progress = TRUE,
               !.merge = [pc |-> "snapshot", range_id |-> 0, snap |-> <<>>]]
\* the foreground apply of every range from range_id on
RECURSIVE ApplyAll(_, _)
ApplyAll(st, range_id) ==
    IF range_id >= Len(st.page_ranges) THEN st
    ELSE ApplyAll(ApplyPendingMerge(st, range_id), range_id + 1)
\* one merge: the background producer, then the foreground apply
Merged(st) == ApplyAll(MergeRun(StartMerge(st)), 0)
\* the tps list and the base pages of every range, and the base pages the
\* bufferpool holds
BaseImage(st) ==
    [ranges |-> [i \in 1..Len(st.page_ranges) |->
                    [tps |-> st.page_ranges[i].tps, base_pages |-> st.page_ranges[i].base_pages]],
     frames |-> [k \in {f \in DOMAIN st.frames : ~f[2]} |-> FramePage(st, k)]]

\* C12: in a state where no merge thread runs, a merge run twice with no
\* insert, update or delete in between leaves the same tps lists and the
\* same base pages as the merge run once.
C12_MergeIdempotent ==
    (phase = "run" /\ db.merge.pc = "idle") =>
        BaseImage(Merged(Merged(db))) = BaseImage(Merged(db))
\* a merge that raises tps entries, on a table with updated records
C12_Witness ==
    /\ phase = "run" /\ db.merge.pc = "idle" /\ UsePool(db) /\ Len(db.page_ranges) > 0
    /\ db.page_ranges[1].tail_pages # <<>>
    /\ \E i \in 1..Len(db.page_ranges[1].tps) :
          Merged(db).page_ranges[1].tps[i] # db.page_ranges[1].tps[i]
    /\ MergeRun(StartMerge(db)).merge.pc = "idle"
    /\ BaseImage(Merged(Merged(db))) = BaseImage(Merged(db))

\* C13: in every reachable state, every RID the page directory maps with
\* is_tail = false is below the first tail RID and every RID it maps with
\* is_tail = true is at least the first tail RID, so that the base RIDs
\* and the tail RIDs are disjoint, for any number of inserts and updates.
C13_RidsDisjoint ==
    \A rid \in DOMAIN db.page_directory :
        db.page_directory[rid].is_tail <=> rid >= TAIL_RID_BASE

\* the page directory before the step: that of the process, or, when the
\* step opens the database, that of the process that closed it
DirectoryBefore == IF phase = "closed" THEN gh.saved.page_directory ELSE db.page_directory
\* C14: once a RID is in the page directory, no later operation (insert,
\* update, delete, a step of the merge thread, the application of a merge,
\* close followed by open) removes its entry or changes the range, the
\* is_tail flag, the page and the offset the entry names.
C14_DirectoryStable ==
    [][phase' = "run" =>
          \A rid \in DOMAIN DirectoryBefore :
              /\ rid \in DOMAIN db'.page_directory
              /\ db'.page_directory[rid] = DirectoryBefore[rid]]_vars

\* the records inserted and not deleted since whose latest values have
\* value in the column
LiveWithValue(column, value) == {rid \in gh.alive : Last(gh.versions[rid])[column] = value}
\* the values the index of the column or a live record has in the column
ValuesOf(st, column) ==
    DOMAIN st.indices[column].map \cup {Last(gh.versions[rid])[column] : rid \in gh.alive}
\* the RID list holds the RIDs of the set, each once
ListsExactly(list, rids) ==
    /\ {list[i] : i \in 1..Len(list)} = rids
    /\ Len(list) = Cardinality(rids)

\* C15: for every active secondary index column c and every value v, after
\* any sequence of insert, update, delete and create_index calls,
\* index.locate(c, v) is exactly the base RIDs of the live records whose
\* latest value in column c is v.
C15_SecondaryExact ==
    phase = "run" =>
        \A c \in UserCols \ {key} :
            db.indices[c].active =>
                \A value \in ValuesOf(db, c) :
                    ListsExactly(locate(db, c, value), LiveWithValue(c, value))

\* the records inserted and not deleted since with a key in the range
LiveInRange(lo, hi) == {rid \in gh.alive : lo <= KeyOf(rid) /\ KeyOf(rid) <= hi}
\* the sum of the latest values of the records in the column
RECURSIVE LatestTotal(_, _)
LatestTotal(rids, column) ==
    IF rids = {} THEN 0
    ELSE Last(gh.versions[Min(rids)])[column] + LatestTotal(rids \ {Min(rids)}, column)
\* what Query.sum gives its caller in state st
SumResult(st, lo, hi, column) == Result(sum(st, lo, hi, column))

\* C16: Query.sum(lo, hi, col) returns the sum, over the live records with
\* a key in [lo, hi], of the latest value of col, and returns false exactly
\* when no live record has a key in the range.
C16_SumLatest ==
    phase = "run" =>
        \A lo \in KeyVals, hi \in KeyVals, column \in UserCols :
            lo <= hi =>
                IF LiveInRange(lo, hi) = {} THEN ~SumResult(db, lo, hi, column).ok
                ELSE /\ SumResult(db, lo, hi, column).ok
                     /\ SumResult(db, lo, hi, column).recs =
                            <<LatestTotal(LiveInRange(lo, hi), column)>>

\* the key was deleted and has not been inserted again
KeyDeleted(k) == DeletedWithKey(k) # {} /\ ~KeyInUse(k)
\* the query answered with the empty list
AnswersEmpty(res) == res.ok /\ res.recs = <<>>
\* what Query.select gives its caller in state st
SelectResult(st, search_key) == Result(select(st, search_key, key, AllOnes))

\* C17: select and select_version, with any relative version, on a key that
\* was deleted and not inserted again return the empty result list, not
\* false.
C17_DeletedKeyEmpty ==
    phase = "run" =>
        \A k \in KeyVals :
            KeyDeleted(k) =>
                /\ AnswersEmpty(SelectResult(db, k))
                /\ \A v \in 0..MaxBack : AnswersEmpty(VersionResult(db, k, v))

\* the INDIRECTION slot of the record, read from its fetched bundle
IndAt(st, e) == IF Ok(st) /\ IndReadable(st, e) THEN <<IndValue(st, e)>> ELSE <<>>
BaseIndirection(st, rid) == IndAt(GetEntry(st, st.page_directory[rid]), st.page_directory[rid])
\* the RID page of the last tail bundle of the range holds the RID
OnTailPage(st, range_id, page_id, rid) ==
    /\ page_id >= 0
    /\ UsePool(st) => make_page_key(range_id, TRUE, page_id, RID_COLUMN) \in DOMAIN st.frames
    /\ SeqHas(ObjPage(st, make_page_key(range_id, TRUE, page_id, RID_COLUMN)), rid)
\* the update that raised had written part of the tail record of the RID:
\* its RID is on the tail page, the page directory does not have it
PartlyWritten(st, base_rid, tail_rid) ==
    /\ tail_rid \notin DOMAIN st.page_directory
    /\ OnTailPage(st, st.page_directory[base_rid].range_id,
                  Len(st.page_ranges[st.page_directory[base_rid].range_id + 1].tail_pages) - 1,
                  tail_rid)

\* C18: when a page write fails partway through Table.update, after the new
\* tail record is partly written, the INDIRECTION slot of the base record is
\* unchanged and read(base_rid) still returns the version it returned
\* before the update.
C18_FailedUpdateKeepsVersion ==
    [][(last'.op = "update" /\ last'.res.raised /\ PartlyWritten(db', last'.rid, db.next_tail_rid))
          => /\ BaseIndirection(db', last'.rid) = BaseIndirection(db, last'.rid)
             /\ ReadResult(db', last'.rid) = last'.pre]_vars

\* column vectors of U - 1, U and U + 1 entries, each null or a value
UpdateInputs == UNION {[1..n -> {<<>>, <<0>>}] : n \in (NUM_COLUMNS - 1)..(NUM_COLUMNS + 1)}
\* the RIDs of the page directory and one it does not have
RidInputs(st) == DOMAIN st.page_directory \cup {st.next_rid}
\* the record was deleted by a call that returned true
WasDeleted(rid) == rid \in (DOMAIN gh.versions) \ gh.alive
\* the call is one Table.update is to turn down
Rejects(st, rid, columns) ==
    \/ Len(columns) # NUM_COLUMNS
    \/ columns[key + 1] # <<>>
    \/ rid \notin DOMAIN st.page_directory
    \/ st.page_directory[rid].is_tail
    \/ WasDeleted(rid)
    \/ \A i \in 1..Len(columns) : columns[i] = <<>>
\* no tail page of a range or of a frame differs between st and after
SameTails(st, after) ==
    /\ Len(after.page_ranges) = Len(st.page_ranges)
    /\ \A i \in 1..Len(st.page_ranges) :
           after.page_ranges[i].tail_pages = st.page_ranges[i].tail_pages
    /\ \A k \in DOMAIN st.frames \cap DOMAIN after.frames :
           k[2] => FramePage(after, k) = FramePage(st, k)
\* the base record as stored: its INDIRECTION and its columns
BaseRecord(st, rid) == <<BaseIndirection(st, rid), Result(ReadWithoutIndirection(st, rid))>>
\* Table.update returned false and changed nothing of what it is to keep
TurnedDown(st, rid, after) ==
    /\ ~Result(after).ok /\ ~Result(after).raised
    /\ after.next_tail_rid = st.next_tail_rid
    /\ SameTails(st, after)
    /\ after.page_directory = st.page_directory
    /\ after.indices = st.indices
    /\ after.update_count = st.update_count
    /\ rid \in BaseRidSet(st) => BaseRecord(Settle(after), rid) = BaseRecord(st, rid)

\* C19: Table.update returns false, allocates no tail RID, writes no tail
\* record and leaves the base record, the page directory, the indexes and
\* update_count unchanged when the column vector has not U entries, the key
\* entry is non-null, the RID is not in the page directory, the RID is a
\* tail RID, the base record is deleted, or every entry is null.
C19_UpdateTurnedDown ==
    phase = "run" =>
        \A rid \in RidInputs(db), columns \in UpdateInputs :
            Rejects(db, rid, columns) => TurnedDown(db, rid, TableUpdate(db, rid, columns))

\* the table had the merge thread not published its pages
Unpublished(st) ==
    [st EXCEPT !.page_ranges = [i \in 1..Len(@) |-> [@[i] EXCEPT !.pending_merge = <<>>]]]

\* C20: for any interleaving of a merge with inserts, updates and deletes,
\* applying the published pending merge does not change what read(rid)
\* returns for any base RID: every insert, update and delete that completed
\* before the application, also between the merge's copy of the base pages
\* and the application, stays visible.
C20_ApplyKeepsReads ==
    phase = "run" =>
        \A rid \in BaseRidSet(db) :
            ReadResult(ApplyAll(db, 0), rid) = ReadResult(Unpublished(db), rid)

\* C21: on an opened database, an insert of integer values whose key no
\* live record holds returns true in every reachable state, also after
\* column pages of the last base bundle were evicted from the bufferpool and
\* loaded again from disk.
C21_InsertSucceeds ==
    [][(last'.op = "insert" /\ last' # last /\ UsePool(db) /\ ~KeyInUse(last'.cols[key]))
          => last'.res.ok]_vars

\* C22: with one or several foreground threads issuing updates, at most one
\* merge thread of the table runs at any moment: a merge is started only
\* while merge_in_progress is false, the flag is set before the thread
\* starts and is cleared only by that thread when it ends.
C22_OneMerge ==
    /\ fg.tasks <= 1
    /\ fg.tasks = 1 => db.merge_in_progress

\* C23: every merge thread that was started runs to its end and resets
\* merge_in_progress, whatever inserts, updates and deletes the foreground
\* interleaves with it: while the calls go on, a set flag is cleared again.
C23_MergeFinishes == (db.merge_in_progress /\ Running) ~> (~db.merge_in_progress \/ ~Running)

\* the slot of a column of the record, read from its fetched bundle
ColAt(st, e, col) ==
    IF Ok(st) /\ Readable(ObjPage(st, EntryKey(e, col)), e.offset)
    THEN <<ObjPage(st, EntryKey(e, col))[e.offset + 1]>> ELSE <<>>
Stored(st, rid, col) == ColAt(GetEntry(st, st.page_directory[rid]), st.page_directory[rid], col)
\* ind is NULL_RID, DELETED or the RID of a tail record of the base record
OwnChain(st, rid, ind) ==
    \/ ind = <<NULL_RID>>
    \/ ind = <<deleted>>
    \/ /\ ind # <<>>
       /\ ind[1] \in DOMAIN st.page_directory
       /\ st.page_directory[ind[1]].is_tail
       /\ Stored(st, ind[1], BASE_RID_COLUMN) = <<rid>>
\* the three parts of C24 for range r (from 1) of st and the state after the
\* application
BundlesKept(st, after, r) ==
    Len(after.page_ranges[r].base_pages) >= Len(st.page_ranges[r].base_pages)
TpsCovers(st, after, r) ==
    \A p \in 1..Len(st.page_ranges[r].pending_merge[2]) :
        /\ p <= Len(after.page_ranges[r].tps)
        /\ after.page_ranges[r].tps[p] >= st.page_ranges[r].pending_merge[2][p]
ChainsKept(st, after, r) ==
    \A rid \in BaseRidSet(st) :
        st.page_directory[rid].range_id = r - 1 =>
            OwnChain(after, rid, Stored(after, rid, INDIRECTION_COLUMN))
Pending(st) == {r \in 1..Len(st.page_ranges) : st.page_ranges[r].pending_merge # <<>>}

\* C24: when a foreground call finds a published merge result and
\* _apply_pending_merge has returned, every base bundle the range had before
\* is still there, every tps entry is at least the published one, and the
\* INDIRECTION of every base record of the range is NULL_RID, DELETED or the
\* RID of a tail record of that base record.
C24_ApplyConsistent ==
    phase = "run" =>
        \A r \in Pending(db) :
            /\ BundlesKept(db, ApplyPendingMerge(db, r - 1), r)
            /\ TpsCovers(db, ApplyPendingMerge(db, r - 1), r)
            /\ ChainsKept(db, ApplyPendingMerge(db, r - 1), r)

\* what the range of the base record holds
RangeOf(st, rid) == st.page_ranges[st.page_directory[rid].range_id + 1]
\* the step of thread t is the locked block of a fetch that found the slot set
Installs(t) == fg.pc[t] = "lock" /\ fg'.pc[t] = "idle" /\ SlotOf(db, fg.local[t]) # <<>>
\* the fetch of a tail bundle leaves every slot as it was
TailFetchKeeps(st, e) ==
    e.is_tail => \A r \in 1..Len(st.page_ranges) :
                    GetEntry(st, e).page_ranges[r].pending_merge = st.page_ranges[r].pending_merge

\* C25: the pending_merge slot of a range is set by the publish step of a
\* merge only; the fetch of a base bundle that finds it set installs the
\* result the slot holds at that moment and clears the slot, so no published
\* result is cleared while another one is installed; the fetch of a tail
\* bundle leaves the slot alone.
C25_SlotInstalled ==
    /\ [](phase = "run" => \A rid \in DOMAIN db.page_directory :
                               TailFetchKeeps(db, db.page_directory[rid]))
    /\ [][\A r \in 1..Len(db.page_ranges) :
              (Len(db'.page_ranges) >= r /\ db'.page_ranges[r].pending_merge # <<>>
                 /\ db'.page_ranges[r].pending_merge # db.page_ranges[r].pending_merge)
                  => last'.op = "merge"]_vars
    /\ [][\A t \in Threads :
              Installs(t) =>
                  /\ SlotOf(db', fg.local[t]) = <<>>
                  /\ RangeOf(db', fg.local[t]).base_pages = SlotOf(db, fg.local[t])[1]
                  /\ RangeOf(db', fg.local[t]).tps =
                         MergedTps(RangeOf(db, fg.local[t]).tps, SlotOf(db, fg.local[t])[1],
                                   SlotOf(db, fg.local[t])[2])]_vars

\* the RIDs of the tail records of range r (from 1)
TailRidsOf(st, r) ==
    {t \in DOMAIN st.page_directory :
        st.page_directory[t].is_tail /\ st.page_directory[t].range_id = r - 1}
\* the tail record's base record lies on a base page of range r whose entry
\* of merged_tps is at least the tail record's RID
Covered(st, r, merged_tps, tail_rid, base_rid) ==
    (base_rid # <<>> /\ base_rid[1] \in BaseRidSet(st)
       /\ st.page_directory[base_rid[1]].range_id = r - 1)
        => /\ st.page_directory[base_rid[1]].page_id < Len(merged_tps)
           /\ merged_tps[st.page_directory[base_rid[1]].page_id + 1] >= tail_rid
\* the step publishes a merge result for range r
Publishes(r) ==
    /\ last'.op = "merge"
    /\ Len(db'.page_ranges) >= r
    /\ db'.page_ranges[r].pending_merge # <<>>
    /\ db.merge.pc = "reconcile" /\ db.merge.range_id = r - 1 /\ db'.merge.pc = "snapshot"

\* C26: the merged_tps a merge publishes for a range covers every tail
\* record of the range that was written before the reconcile block: also
\* those appended after the snapshot, in new tail bundles or in the last
\* bundle of the snapshot.
C26_PublishedTpsCovers ==
    [][\A r \in 1..Len(db.page_ranges) :
          Publishes(r) =>
              \A t \in TailRidsOf(db, r) :
                  Covered(db, r, db'.page_ranges[r].pending_merge[2], t,
                          Stored(db, t, BASE_RID_COLUMN))]_vars

\* the tail records of range r whose base record is stored on base page p
\* (both from 1)
TailsOfPage(st, r, p) ==
    {t \in TailRidsOf(st, r) :
        \E b \in BaseRidSet(st) :
            /\ st.page_directory[b].range_id = r - 1
            /\ st.page_directory[b].page_id = p - 1
            /\ Stored(st, t, BASE_RID_COLUMN) = <<b>>}
\* the largest of a set of RIDs, NULL_RID for the empty set
Largest(S) == IF S = {} THEN NULL_RID ELSE CHOOSE x \in S : \A y \in S : y <= x
\* after: the table once a merge has run and been applied in state st
TpsExact(st, after) ==
    \A r \in 1..Len(st.page_ranges) :
        \A p \in 1..Len(st.page_ranges[r].base_pages) :
            /\ p <= Len(after.page_ranges[r].tps)
            /\ after.page_ranges[r].tps[p] = Largest(TailsOfPage(st, r, p))
\* no tps entry is lower in the next state
TpsKept ==
    \A r \in 1..Len(db.page_ranges) :
        \A p \in 1..Len(db.page_ranges[r].tps) :
            /\ r <= Len(db'.page_ranges)
            /\ p <= Len(db'.page_ranges[r].tps)
            /\ db'.page_ranges[r].tps[p] >= db.page_ranges[r].tps[p]

\* C27: a merge that runs with no foreground write in between and is
\* applied leaves, for each base page of a range, tps equal to the largest
\* RID of the tail records whose base record is on that page, NULL_RID when
\* there is none; and no step of a run, whatever merges it holds, lowers a
\* tps entry.
C27_TpsExact ==
    /\ []((phase = "run" /\ db.merge.pc = "idle" /\ Pending(db) = {}) => TpsExact(db, Merged(db)))
    /\ [][(phase = "run" /\ phase' = "run") => TpsKept]_vars

\* the INDIRECTION of tail record t is NULL_RID or the RID of another tail
\* record of the same base record
TailLinked(st, t, ind) ==
    \/ ind = <<NULL_RID>>
    \/ /\ ind # <<>>
       /\ ind[1] # t
       /\ ind[1] \in DOMAIN st.page_directory
       /\ st.page_directory[ind[1]].is_tail
       /\ Stored(st, ind[1], BASE_RID_COLUMN) = Stored(st, t, BASE_RID_COLUMN)
\* following INDIRECTION from ind ends at NULL_RID (at DELETED for a deleted
\* base record) within n steps
RECURSIVE ChainEnds(_, _, _, _)
ChainEnds(st, ind, first, n) ==
    \/ ind = <<NULL_RID>>
    \/ first /\ ind = <<deleted>>
    \/ /\ n > 0 /\ ind # <<>>
       /\ ind[1] \in DOMAIN st.page_directory
       /\ ChainEnds(st, Stored(st, ind[1], INDIRECTION_COLUMN), FALSE, n - 1)
WellLinked(st, rid) ==
    IF st.page_directory[rid].is_tail
    THEN TailLinked(st, rid, Stored(st, rid, INDIRECTION_COLUMN))
    ELSE /\ OwnChain(st, rid, Stored(st, rid, INDIRECTION_COLUMN))
         /\ ChainEnds(st, Stored(st, rid, INDIRECTION_COLUMN), TRUE, Cardinality(DOMAIN st.page_directory))

\* C28: in every reachable state, also after Table.delete was given the RID
\* of a tail record, the INDIRECTION of a base record is NULL_RID, DELETED or
\* the RID of a tail record of that base record, the INDIRECTION of a tail
\* record is NULL_RID or the RID of another tail record of the same base
\* record, and the chain from a base record ends at NULL_RID.
C28_ChainsWellFormed ==
    phase = "run" => \A rid \in DOMAIN db.page_directory : WellLinked(db, rid)

\* the bitmask of the columns in which version w differs from version v;
\* every update writes values no earlier call has used
RECURSIVE ChangedMask(_, _, _)
ChangedMask(v, w, i) ==
    IF i >= NUM_COLUMNS THEN 0
    ELSE (IF w[i] # v[i] THEN Pow2(i) ELSE 0) + ChangedMask(v, w, i + 1)
\* the OR of the masks of the updates that made versions k + 1, k + 2, ...
RECURSIVE OrOfMasks(_, _)
OrOfMasks(vs, k) ==
    IF k >= Len(vs) THEN 0
    ELSE BitOr(ChangedMask(vs[k], vs[k + 1], 0), OrOfMasks(vs, k + 1))
\* the tail records of the base record, and the place of one among them
TailsOf(st, rid) ==
    {t \in DOMAIN st.page_directory :
        st.page_directory[t].is_tail /\ Stored(st, t, BASE_RID_COLUMN) = <<rid>>}
Rank(st, rid, t) == Cardinality({u \in TailsOf(st, rid) : u <= t})
\* tail record t holds version w in full and the mask of the update that
\* made w out of v
TailHolds(st, t, v, w) ==
    /\ \A c \in UserCols : Stored(st, t, c + USER_COL_OFFSET) = <<w[c]>>
    /\ Stored(st, t, SCHEMA_ENCODING_COLUMN) = <<ChangedMask(v, w, 0)>>
Cumulative(st, rid, vs) ==
    /\ Stored(st, rid, SCHEMA_ENCODING_COLUMN) = <<OrOfMasks(vs, 1)>>
    /\ Cardinality(TailsOf(st, rid)) = Len(vs) - 1
    /\ \A t \in TailsOf(st, rid) :
           /\ Rank(st, rid, t) < Len(vs)
           /\ TailHolds(st, t, vs[Rank(st, rid, t)], vs[Rank(st, rid, t) + 1])

\* C29: each tail record holds all user columns with the values the record
\* has after that update, and as SCHEMA_ENCODING the bitmask of the columns
\* that update gave; the SCHEMA_ENCODING of the base record is the OR of the
\* masks of all updates of the record that returned true.
C29_TailsCumulative ==
    phase = "run" =>
        \A rid \in DOMAIN gh.versions \cap DOMAIN db.page_directory :
            Cumulative(db, rid, gh.versions[rid])

\* the number of base bundles of the first n ranges
RECURSIVE BundleCount(_, _)
BundleCount(st, n) ==
    IF n = 0 THEN 0 ELSE Len(st.page_ranges[n].base_pages) + BundleCount(st, n - 1)
\* there is no base bundle, or the RID page of the last one is full
LastBundleFull(st) ==
    \/ Len(st.page_ranges) = 0
    \/ Len(Last(st.page_ranges).base_pages) = 0
    \/ Len(Last(Last(st.page_ranges).base_pages)[RID_COLUMN + 1]) >= MAX_RECORDS

\* C30: an insert adds a base bundle, to the current range or to a range it
\* appends, only when the RID page of the last base bundle is full: the last
\* bundle a range can hold is filled before a new range is started.
C30_BundleOnlyWhenFull ==
    [][(last'.op = "insert" /\ BundleCount(db', Len(db'.page_ranges)) > BundleCount(db, Len(db.page_ranges)))
          => LastBundleFull(db)]_vars

\* every column page of the fetched bundle holds as many records as its
\* first one
EvenIn(st, range_id, is_tail, page_id) ==
    Ok(st) =>
        \A c \in 0..(NCOLS - 1) :
            Len(ObjPage(st, make_page_key(range_id, is_tail, page_id, c)))
                = Len(ObjPage(st, make_page_key(range_id, is_tail, page_id, 0)))
EvenBundles(st, r, is_tail) ==
    \A p \in 1..Len(Bundles(st, r - 1, is_tail)) :
        EvenIn(GetBundle(st, r - 1, is_tail, p - 1), r - 1, is_tail, p - 1)

\* C31: in every reachable state, also after an insert or an update that
\* failed partway, the column pages of a bundle hold the same number of
\* records, so that the columns of a record sit at one slot index.
C31_ColumnsAligned ==
    phase = "run" =>
        \A r \in 1..Len(db.page_ranges) : EvenBundles(db, r, FALSE) /\ EvenBundles(db, r, TRUE)

\* the entry's bundle exists in its range
BundleExists(st, e) ==
    /\ e.range_id < Len(st.page_ranges)
    /\ e.page_id < Len(Bundles(st, e.range_id, e.is_tail))
\* st: the table with the entry's bundle fetched; the offset is a slot of
\* every column page
InBounds(st, e) ==
    /\ Ok(st)
    /\ BundleExists(st, e)
    /\ \A c \in 0..(NCOLS - 1) : Readable(ObjPage(st, EntryKey(e, c)), e.offset)

\* C32: in every reachable state, also once a pending merge is applied and
\* after pages were evicted and loaded again, each entry of the page
\* directory names a bundle its range has and a slot that every column page
\* of the bundle, as _get_bundle returns it, holds.
C32_DirectoryInBounds ==
    phase = "run" =>
        \A rid \in DOMAIN db.page_directory :
            InBounds(GetEntry(db, db.page_directory[rid]), db.page_directory[rid])

\* the keys of the sequence other than k, in their order
Without(seq, k) == SelectSeq(seq, LAMBDA x : x # k)
\* after a call that used key k and did not fail, k is the most recently
\* used key and the other keys left in the pool keep their order
Touched(st, after, k) ==
    Ok(after) =>
        /\ k \in DOMAIN after.frames
        /\ after.lru_order = SelectSeq(Without(st.lru_order, k), LAMBDA x : x \in DOMAIN after.frames) \o <<k>>
\* the frame _evict removed is the first unpinned one of the LRU order
EvictsLru(st, after) ==
    Ok(after) =>
        \E i \in 1..Len(st.lru_order) :
            /\ st.frames[st.lru_order[i]].pin_count = 0
            /\ \A j \in 1..(i - 1) : st.frames[st.lru_order[j]].pin_count > 0
            /\ DOMAIN after.frames = DOMAIN st.frames \ {st.lru_order[i]}
            /\ after.lru_order = Without(st.lru_order, st.lru_order[i])
\* a miss or a registration removes a frame only from a full pool, and then
\* the one _evict chooses
MakesRoom(st, after, k) ==
    Ok(after) =>
        DOMAIN after.frames =
            (IF Cardinality(DOMAIN st.frames) >= pool_size THEN DOMAIN Evict(st).frames
             ELSE DOMAIN st.frames) \cup {k}
LruAt(st) ==
    Ok(st) =>
        /\ \A k \in DOMAIN st.frames : Touched(st, GetPage(st, k), k)
        /\ \A k \in DOMAIN st.frames : Unpin(st, k, FALSE).lru_order = st.lru_order
        /\ \A k \in Unframed(st) :
               /\ Touched(st, GetPage(st, k), k) /\ MakesRoom(st, GetPage(st, k), k)
               /\ Touched(st, RegisterPage(st, k), k) /\ MakesRoom(st, RegisterPage(st, k), k)
        /\ st.lru_order # <<>> => EvictsLru(st, Evict(st))

\* Table.update at the point where it asks for the bundle of the new tail
\* record: base bundle bp of range r held pinned, tail bundle p1 fetched and
\* unpinned, tail bundle p2 fetched
Mid(st, r, bp, p1, p2) ==
    GetBundle(UnpinBundle(GetBundle(GetBundle(st, r, FALSE, bp), r, TRUE, p1), r, TRUE, p1, FALSE),
              r, TRUE, p2)
LruWithin(st, r) ==
    \A bp \in 0..(Len(st.page_ranges[r].base_pages) - 1) :
        /\ LruAt(GetBundle(st, r - 1, FALSE, bp))
        /\ \A p1, p2 \in 0..(Len(st.page_ranges[r].tail_pages) - 1) :
               LruAt(Mid(st, r - 1, bp, p1, p2))

\* C33: the frame the bufferpool removes to make room is the least recently
\* used one among the unpinned frames: a get_page hit, the installation of
\* a page after a miss and register_page each put the key last in the LRU
\* order and leave the order of the others, unpin leaves the order alone,
\* and _evict takes the first key of the order whose frame is unpinned.
\* Checked between calls and within an update, where pinned frames are the
\* oldest of the pool.
C33_EvictsLeastRecent ==
    (phase = "run" /\ UsePool(db)) =>
        /\ LruAt(db)
        /\ \A r \in 1..Len(db.page_ranges) : LruWithin(db, r)
\* the oldest frame of a full pool is pinned, and _evict passes over it
OldestPinned(st) ==
    /\ Ok(st)
    /\ Cardinality(DOMAIN st.frames) >= pool_size
    /\ st.frames[st.lru_order[1]].pin_count > 0
    /\ Ok(Evict(st))
    /\ st.lru_order[1] \in DOMAIN Evict(st).frames
C33_Witness ==
    /\ phase = "run" /\ UsePool(db) /\ Len(db.page_ranges) > 0
    /\ \E bp \in 0..(Len(db.page_ranges[1].base_pages) - 1) :
          \E p1, p2 \in 0..(Len(db.page_ranges[1].tail_pages) - 1) :
              OldestPinned(Mid(db, 0, bp, p1, p2))

\* the page a get_page miss hands out for key k
Reloaded(st, k) == ObjPage(GetPage(st, k), k)
\* the frame at position i of the LRU order is evicted and its key fetched again
SurvivesAt(st, i) ==
    st.frames[st.lru_order[i]].pin_count = 0 =>
        /\ (st.frames[st.lru_order[i]].is_dirty =>
                DGet(EvictAt(st, i).files, st.lru_order[i]) = FramePage(st, st.lru_order[i]))
        /\ Ok(GetPage(EvictAt(st, i), st.lru_order[i]))
        /\ Reloaded(EvictAt(st, i), st.lru_order[i]) = FramePage(st, st.lru_order[i])

Unpinned(st) == \A k \in DOMAIN st.frames : st.frames[k].pin_count = 0

\* C35: with a single foreground thread, after any Table or Query operation
\* has returned (with success, with false, or after an exception the query
\* facade swallowed) every frame of the bufferpool has pin_count 0.
C35_NothingPinned == phase = "run" => Unpinned(db)

\* C36: under concurrent foreground threads no two inserts are assigned the
\* same base RID, no two updates the same tail RID, and an entry of the page
\* directory, once written, is never overwritten by another operation.
C36_RidsDistinct ==
    [][\A rid \in DOMAIN db.page_directory :
          /\ rid \in DOMAIN db'.page_directory
          /\ db'.page_directory[rid] = db.page_directory[rid]]_vars

\* the number of tail records on the chain that starts at ind, n steps at most
RECURSIVE ChainLen(_, _, _)
ChainLen(st, ind, n) ==
    IF n = 0 \/ ind = <<>> THEN 0
    ELSE IF ind[1] \notin DOMAIN st.page_directory THEN 0
    ELSE 1 + ChainLen(st, Stored(st, ind[1], INDIRECTION_COLUMN), n - 1)
ChainOf(st, rid) ==
    ChainLen(st, Stored(st, rid, INDIRECTION_COLUMN), Cardinality(DOMAIN st.page_directory))
AllIdle == \A t \in Threads : fg.pc[t] = "idle"
\* every RID handed out so far has an entry of its own in the page directory
RidsApart(st) ==
    Cardinality(DOMAIN st.page_directory) = st.next_rid + (st.next_tail_rid - TAIL_RID_BASE)

\* C37: when the updates of foreground threads on one base record have
\* returned true, they are serialized: the record's tail chain from the
\* base INDIRECTION to NULL_RID holds one tail record for each of them, and
\* read(rid) returns the values of one of the versions they wrote.  Stated
\* for the runs in which no RID was given twice.
C37_UpdatesSerialized ==
    (phase = "run" /\ AllIdle /\ RidsApart(db)) =>
        \A rid \in DOMAIN gh.versions :
            /\ ChainOf(db, rid) = UpdatesOf(rid)
            /\ Result(TableRead(db, rid)).ok
            /\ \E i \in 1..Len(gh.versions[rid]) :
                  Result(TableRead(db, rid)).recs[1].columns = gh.versions[rid][i]

\* the fetches of key k that have returned and are not unpinned yet
RECURSIVE CountIn(_, _)
CountIn(s, k) == IF s = <<>> THEN 0 ELSE (IF Head(s) = k THEN 1 ELSE 0) + CountIn(Tail(s), k)
RECURSIVE HeldBy(_, _)
HeldBy(t, k) == IF t = 0 THEN 0 ELSE CountIn(fg.held[t], k) + HeldBy(t - 1, k)

\* C38: under concurrent get_page, unpin and register_page from several
\* threads each frame's pin_count is the number of fetches of its key not
\* yet unpinned, the frame table and the LRU order hold the same keys, and
\* a page some thread holds is in the pool.
C38_PinsCounted ==
    phase = "run" =>
        /\ \A k \in DOMAIN db.frames : db.frames[k].pin_count = HeldBy(MaxThreads, k)
        /\ DOMAIN db.frames = {db.lru_order[i] : i \in 1..Len(db.lru_order)}
        /\ \A t \in Threads : \A j \in 1..Len(fg.held[t]) : fg.held[t][j] \in DOMAIN db.frames

\* C39: no merge task is active while persistence runs: in the state in
\* which Database.close was called, merge_in_progress is false and no merge
\* thread is about to read or to publish.
C39_NoMergeAtClose ==
    phase = "closed" =>
        /\ ~gh.saved.merge_in_progress
        /\ gh.saved.merge.pc \notin {"snapshot", "reconcile"}


\* the page keys of the bundles of range r (from 1) of st
BundleKeys(st, r, is_tail) ==
    {make_page_key(r - 1, is_tail, p - 1, c) :
        p \in 1..Len(Bundles(st, r - 1, is_tail)), c \in 0..(NCOLS - 1)}
\* after: st once Table.serialize has run.  Every page of range r has its
\* file, which holds the copy a fetch of the page would have returned
Written(st, after, ks) ==
    \A k \in ks : k \in DOMAIN after.files /\ after.files[k] = Reloaded(st, k)
Serialized(st, after) ==
    /\ Ok(after)
    /\ Len(after.tmeta.range_meta) = Len(st.page_ranges)
    /\ \A r \in 1..Len(st.page_ranges) :
          /\ after.tmeta.range_meta[r] = <<Len(st.page_ranges[r].base_pages),
                                          Len(st.page_ranges[r].tail_pages)>>
          /\ Written(st, after, BundleKeys(st, r, FALSE))
          /\ Written(st, after, BundleKeys(st, r, TRUE))

\* C40: Table.serialize, as Database.close calls it after flush_all, ends
\* without an error and writes, for every page range of the table (none,
\* one or several), the range's bundle counts and one page file for every
\* column page of every base and tail bundle, each holding the newest copy
\* of the page.
C40_SerializeComplete ==
    (phase = "run" /\ UsePool(db) /\ db.has_table) =>
        Serialized(flush_all(db), serialize(flush_all(db)))
====
